---- MODULE Spec2Model ----
(***************************************************************************)
(* Model of the curve-synthesis core of sdfk_frontend (src/curve_helper.py *)
(* and src/enums.py): the keyframe synthesizers (SpecSynth), the record    *)
(* assemblers and the export (SpecAssemble), and the rasterizer, the       *)
(* integrals, the alpha remap and the keyframe extraction (SpecRaster),    *)
(* with the checkered background and the plotting of streamlit_helper.py;  *)
(* and of its collaborators update_field (src/svc_db.py), fetch_json       *)
(* (src/svc_blob.py) and read_page (src/read.py) (SpecApp).                *)
(*                                                                         *)
(* Numbers.  Python floats are modelled in fixed point: the integer x      *)
(* stands for x/1000.  Times, values, tangents, scales and noise are all   *)
(* in thousandths; a product of two such numbers is divided by 1000        *)
(* again (Mul).  int() is truncation toward zero (PyInt).                  *)
(*                                                                         *)
(* Randomness.  The module-level generator of Python's random is a         *)
(* deterministic generator whose state at the time of a call is unknown.   *)
(* It is modelled as a full-period linear congruential generator of        *)
(* RngModulus states; a call starts at an arbitrary state (its seed) and   *)
(* the k-th draw of the call is Rnd(seed, k).  Every call draws in the     *)
(* order the code draws.                                                   *)
(***************************************************************************)
EXTENDS Integers, Sequences, FiniteSets, TLC

VARIABLES pc, op, args, ret, metadata, database, session_state

vars == <<pc, op, args, ret, metadata, database, session_state>>

(***************************************************************************)
(* Bounds of the model                                                     *)
(***************************************************************************)
\* seeds 0..MaxSeed of the generator are tried for every call
MaxSeed == 2
\* generate_random_float_curve is called with min_keys, max_keys in 0..MaxKeysArg
MaxKeysArg == 4

(***************************************************************************)
(* Fixed-point arithmetic                                                  *)
(***************************************************************************)
Abs(x) == IF x < 0 THEN -x ELSE x

\* quotient rounded toward zero, as Python's int() of a float quotient
TruncDiv(a, b) == IF a >= 0 THEN a \div b ELSE -((-a) \div b)

\* product of two fixed-point numbers
Mul(a, b) == TruncDiv(a * b, 1000)

\* int(x) of the float x
PyInt(x) == TruncDiv(x, 1000)

Max2(a, b) == IF a >= b THEN a ELSE b
Min2(a, b) == IF a <= b THEN a ELSE b

\* CurveHelper.clamp
clamp(value, min_value, max_value) == Max2(min_value, Min2(value, max_value))

\* a local variable: v is computed once, then F reads it
Eval(v, F(_)) == CHOOSE r \in {F(x) : x \in {v}} : TRUE

(***************************************************************************)
(* math.* on fixed-point numbers                                           *)
(***************************************************************************)
MathPi == 3142
MathE == 2718
Ln2 == 693

\* math.sin: reduction to [-pi/2, pi/2], then the Taylor polynomial to x^7
SinReduce(x) ==
    LET r  == x % (2 * MathPi)
        r2 == IF r > MathPi THEN r - 2 * MathPi ELSE r
    IN  IF r2 > MathPi \div 2 THEN MathPi - r2
        ELSE IF r2 < -(MathPi \div 2) THEN -MathPi - r2
        ELSE r2

MathSin(x) ==
    LET y  == SinReduce(x)
        y2 == Mul(y, y)
        y3 == Mul(y2, y)
        y5 == Mul(y3, y2)
        y7 == Mul(y5, y2)
        s  == y - TruncDiv(y3, 6) + TruncDiv(y5, 120) - TruncDiv(y7, 5040)
    IN  clamp(s, -1000, 1000)

\* math.exp(-y) for y >= 0: halving down to [0, 1/4], then Taylor to y^4
RECURSIVE ExpNeg(_)
ExpNeg(y) ==
    IF y > 16000 THEN 0
    ELSE IF y > 250
         THEN LET h == ExpNeg(y \div 2)
                  g == ExpNeg(y - (y \div 2))
              IN  Mul(h, g)
    ELSE LET y2 == Mul(y, y)
             y3 == Mul(y2, y)
             y4 == Mul(y3, y)
         IN  1000 - y + (y2 \div 2) - (y3 \div 6) + (y4 \div 24)

\* math.log(y) for y > 0: scaling into [3/4, 3/2], then the atanh series
RECURSIVE MathLog(_)
MathLog(y) ==
    IF y > 1500 THEN Ln2 + MathLog((y + 1) \div 2)
    ELSE IF y < 750 THEN MathLog(2 * y) - Ln2
    ELSE LET z  == TruncDiv((y - 1000) * 1000, y + 1000)
             z2 == Mul(z, z)
             z3 == Mul(z2, z)
             z5 == Mul(z3, z2)
         IN  2 * (z + TruncDiv(z3, 3) + TruncDiv(z5, 5))

\* t ** p for 0 <= t <= 1 and p > 0
Pow(t, p) == IF t <= 0 THEN 0 ELSE ExpNeg(Mul(p, -MathLog(t)))

\* scipy.special.fresnel(t)[1], the Fresnel cosine integral, by its power
\* series  t - (pi/2)^2 t^5/10 + (pi/2)^4 t^9/216 - (pi/2)^6 t^13/9360
FresnelC(t) ==
    LET t2  == Mul(t, t)
        t4  == Mul(t2, t2)
        t5  == Mul(t4, t)
        t9  == Mul(t5, t4)
        t13 == Mul(t9, t4)
    IN  t - Mul(247, t5) + Mul(28, t9) - TruncDiv(Mul(16, t13), 10)

(***************************************************************************)
(* The random module                                                       *)
(***************************************************************************)
RngModulus == 1024
RngMultiplier == 421
RngIncrement == 389

\* one step of the generator
RngNext(x) == (RngMultiplier * x + RngIncrement) % RngModulus

\* k steps of the generator as one affine map: <<a, c>> with
\* RngNext^k(x) = (a * x + c) % RngModulus
RECURSIVE RngJump(_)
RngJump(k) ==
    IF k = 0 THEN <<1, 0>>
    ELSE LET h  == RngJump(k \div 2)
             a2 == (h[1] * h[1]) % RngModulus
             c2 == (h[1] * h[2] + h[2]) % RngModulus
         IN  IF k % 2 = 0 THEN <<a2, c2>>
             ELSE <<(RngMultiplier * a2) % RngModulus,
                    (RngMultiplier * c2 + RngIncrement) % RngModulus>>

\* the generator's states in the order it visits them, from state 0
RngOrbit == [k \in 1..RngModulus |-> RngJump(k - 1)[2]]

\* random.random() at the k-th draw (k = 1, 2, ...) of a call that found the
\* generator at position seed of its orbit: a float in [0, 1)
Rnd(seed, k) == (RngOrbit[((seed + k) % RngModulus) + 1] * 1000) \div RngModulus

\* random.uniform(a, b) == a + (b - a) * random()
Uniform(a, b, r) == a + Mul(b - a, r)

\* random.randint(a, b) == a + int(random() * (b - a + 1))
RandInt(a, b, r) == a + ((r * (b - a + 1)) \div 1000)

\* random.choice(seq) == seq[int(random() * len(seq))]
Choice(seq, r) == seq[((r * Len(seq)) \div 1000) + 1]

\* sorted(seq): the element of rank k (ties in their original order, the
\* sort being stable) goes to position k
SortRank(s) ==
    [i \in 1..Len(s) |->
        Cardinality({j \in 1..Len(s) : s[j] < s[i] \/ (s[j] = s[i] /\ j < i)}) + 1]

SortPlace(s, rank) == [k \in 1..Len(s) |-> s[CHOOSE i \in 1..Len(s) : rank[i] = k]]

Sorted(seq) ==
    Eval(seq, LAMBDA s : Eval(SortRank(s), LAMBDA rank : SortPlace(s, rank)))

(***************************************************************************)
(* enums.py                                                                *)
(***************************************************************************)
\* list(FloatCurveType), in definition order
FloatCurveType ==
    << "PARABOLIC", "SINUSOIDAL", "EXPONENTIAL", "LOGARITHMIC", "BELL", "CUBIC",
       "STEP", "RANDOM", "QUADRATIC", "HYPERBOLIC", "LERP", "DRAGON", "CYCLE",
       "RAINBOW", "EULER_SPIRAL", "FIBONACCI_WEIGHTED" >>

FloatCurveTypes == {FloatCurveType[i] : i \in 1..Len(FloatCurveType)}

(***************************************************************************)
(* Waveform library                                                        *)
(***************************************************************************)
generate_dragon_step_value(t) ==
    LET theta == 4 * Mul(t, MathPi)
        value == Mul(300, MathSin(theta))
                 + Mul(200, MathSin(3 * theta + (MathPi \div 4)))
                 + Mul(100, MathSin(5 * theta + (MathPi \div 2)))
        normalized_value == TruncDiv((value + 600) * 1000, 1200)
    IN  clamp(normalized_value, 0, 1000)

generate_rainbow_value(t) ==
    LET value == (MathSin(2 * Mul(MathPi, t) - (MathPi \div 2)) + 1000) \div 2
    IN  clamp(value, 0, 1000)

generate_euler_spiral_value(t) ==
    clamp(2 * FresnelC(t), 0, 1000)

generate_fibonacci_weighted_value(t) ==
    LET phi == 1618
        a   == Pow(t, phi)
        b   == Pow(1000 - t, phi)
        value == TruncDiv(a * 1000, a + b)
    IN  clamp(value, 0, 1000)

\* the value formula of each branch of the synthesizers that reads only t
ShapeValue(type, t) ==
    CASE type = "PARABOLIC"   -> Mul(t - 500, t - 500)
      [] type = "SINUSOIDAL"  -> (MathSin(Mul(t, MathPi) - (MathPi \div 2)) + 1000) \div 2
      [] type = "EXPONENTIAL" -> Mul(Mul(t, t), t)
      [] type = "LOGARITHMIC" -> TruncDiv(MathLog(1000 + Mul(t, MathE - 1000)) * 1000, MathLog(MathE))
      [] type = "BELL"        -> ExpNeg(((t - 500) * (t - 500)) \div 5)
      [] type = "CUBIC"       -> TruncDiv(4 * (t - 500) * (t - 500) * (t - 500), 1000000) + 500
      [] type = "QUADRATIC"   -> Mul(t, t)
      [] type = "HYPERBOLIC"  ->
            LET z == 10 * (t - 500)
            IN  IF z >= 0 THEN TruncDiv(1000000, 1000 + ExpNeg(z))
                ELSE TruncDiv(1000 * ExpNeg(-z), 1000 + ExpNeg(-z))
      [] type = "LERP"        -> t
      [] type = "DRAGON"      -> generate_dragon_step_value(t)
      [] type = "CYCLE"       -> (MathSin(2 * Mul(MathPi, t)) + 1000) \div 2
      [] type = "RAINBOW"     -> generate_rainbow_value(t)
      [] type = "EULER_SPIRAL" -> generate_euler_spiral_value(t)
      [] type = "FIBONACCI_WEIGHTED" -> generate_fibonacci_weighted_value(t)

(***************************************************************************)
(* Keyframe synthesizer                                                    *)
(*                                                                         *)
(* A branch of the family-by-family conditional is a record: how the value *)
(* is obtained ("formula": from t alone, "step": against a drawn           *)
(* threshold, "random": drawn), the three mode strings, and for each of    *)
(* the four tangent scalars either the range <<lo, hi>> handed to          *)
(* random.uniform or <<>> for the literal 0.                               *)
(***************************************************************************)
\* a branch that leaves the three mode strings at one fixed triple
BranchFixedModes(kind, im, tm, twm, at, lt, atw, ltw) ==
    [ value_kind |-> kind, interp_mode |-> "RCIM_Linear", tangent_mode |-> "RCTM_Auto",
      tangent_weight_mode |-> "RCTWM_WeightedNone", arrive_tangent |-> at,
      leave_tangent |-> lt, arrive_tangent_weight |-> atw,
      leave_tangent_weight |-> ltw ]

Branch(kind, im, tm, twm, at, lt, atw, ltw) ==
    [ value_kind |-> kind, interp_mode |-> im, tangent_mode |-> tm,
      tangent_weight_mode |-> twm, arrive_tangent |-> at, leave_tangent |-> lt,
      arrive_tangent_weight |-> atw, leave_tangent_weight |-> ltw ]

\* the branches of generate_random_float_curve
RandomCurveBranch(type) ==
    CASE type = "PARABOLIC" ->
            Branch("formula", "RCIM_Cubic", "RCTM_Auto", "RCTWM_WeightedBoth",
                   <<-200, 200>>, <<-200, 200>>, <<200, 600>>, <<200, 600>>)
      [] type = "SINUSOIDAL" ->
            Branch("formula", "RCIM_Cubic", "RCTM_Auto", "RCTWM_WeightedArrive",
                   <<-200, 200>>, <<-200, 200>>, <<300, 700>>, <<300, 700>>)
      [] type = "EXPONENTIAL" ->
            Branch("formula", "RCIM_Linear", "RCTM_Break", "RCTWM_WeightedLeave",
                   <<0, 300>>, <<500, 1000>>, <<100, 400>>, <<500, 1000>>)
      [] type = "LOGARITHMIC" ->
            Branch("formula", "RCIM_Linear", "RCTM_Break", "RCTWM_WeightedArrive",
                   <<100, 500>>, <<100, 500>>, <<100, 300>>, <<100, 300>>)
      [] type = "BELL" ->
            Branch("formula", "RCIM_Cubic", "RCTM_Auto", "RCTWM_WeightedBoth",
                   <<-100, 100>>, <<-100, 100>>, <<200, 500>>, <<200, 500>>)
      [] type = "CUBIC" ->
            Branch("formula", "RCIM_Cubic", "RCTM_Auto", "RCTWM_WeightedBoth",
                   <<-200, 200>>, <<-200, 200>>, <<300, 700>>, <<300, 700>>)
      [] type = "STEP" ->
            Branch("step", "RCIM_Constant", "RCTM_Break", "RCTWM_WeightedNone",
                   <<>>, <<>>, <<>>, <<>>)
      [] type = "RANDOM" ->
            Branch("random", "RCIM_Linear", "RCTM_Break", "RCTWM_WeightedNone",
                   <<-500, 500>>, <<-500, 500>>, <<0, 1000>>, <<0, 1000>>)
      [] type = "QUADRATIC" ->
            Branch("formula", "RCIM_Cubic", "RCTM_Auto", "RCTWM_WeightedBoth",
                   <<-300, 300>>, <<-300, 300>>, <<200, 600>>, <<200, 600>>)
      [] type = "HYPERBOLIC" ->
            Branch("formula", "RCIM_Cubic", "RCTM_Auto", "RCTWM_WeightedBoth",
                   <<-400, 400>>, <<-400, 400>>, <<300, 700>>, <<300, 700>>)
      [] type = "LERP" ->
            Branch("formula", "RCIM_Linear", "RCTM_Break", "RCTWM_WeightedNone",
                   <<>>, <<>>, <<>>, <<>>)
      [] type = "DRAGON" ->
            Branch("formula", "RCIM_Cubic", "RCTM_User", "RCTWM_WeightedBoth",
                   <<-300, 300>>, <<-300, 300>>, <<300, 700>>, <<300, 700>>)
      [] type = "CYCLE" ->
            Branch("formula", "RCIM_Cubic", "RCTM_Auto", "RCTWM_WeightedArrive",
                   <<-200, 200>>, <<-200, 200>>, <<300, 700>>, <<300, 700>>)
      [] type = "RAINBOW" ->
            Branch("formula", "RCIM_Cubic", "RCTM_User", "RCTWM_WeightedBoth",
                   <<-300, 300>>, <<-300, 300>>, <<300, 700>>, <<300, 700>>)
      [] type = "EULER_SPIRAL" ->
            Branch("formula", "RCIM_Cubic", "RCTM_User", "RCTWM_WeightedBoth",
                   <<-400, 400>>, <<-400, 400>>, <<300, 700>>, <<300, 700>>)
      [] type = "FIBONACCI_WEIGHTED" ->
            Branch("formula", "RCIM_Cubic", "RCTM_User", "RCTWM_WeightedBoth",
                   <<-500, 500>>, <<-500, 500>>, <<300, 700>>, <<300, 700>>)
      [] OTHER ->
            Branch("random", "RCIM_Linear", "RCTM_Break", "RCTWM_WeightedNone",
                   <<-500, 500>>, <<-500, 500>>, <<0, 1000>>, <<0, 1000>>)

\* the branches of generate_float_curve
ScaledCurveBranch(type) ==
    CASE type = "PARABOLIC" ->
            Branch("formula", "RCIM_Cubic", "RCTM_Auto", "RCTWM_WeightedBoth",
                   <<-200, 200>>, <<-200, 200>>, <<200, 600>>, <<200, 600>>)
      [] type = "SINUSOIDAL" ->
            Branch("formula", "RCIM_Cubic", "RCTM_Auto", "RCTWM_WeightedArrive",
                   <<-200, 200>>, <<-200, 200>>, <<300, 700>>, <<300, 700>>)
      [] type = "EXPONENTIAL" ->
            Branch("formula", "RCIM_Linear", "RCTM_Break", "RCTWM_WeightedLeave",
                   <<0, 300>>, <<500, 1000>>, <<100, 400>>, <<500, 1000>>)
      [] type = "LOGARITHMIC" ->
            Branch("formula", "RCIM_Linear", "RCTM_Break", "RCTWM_WeightedArrive",
                   <<100, 500>>, <<100, 500>>, <<100, 300>>, <<100, 300>>)
      [] type = "BELL" ->
            Branch("formula", "RCIM_Cubic", "RCTM_Auto", "RCTWM_WeightedBoth",
                   <<-100, 100>>, <<-100, 100>>, <<200, 500>>, <<200, 500>>)
      [] type = "CUBIC" ->
            Branch("formula", "RCIM_Cubic", "RCTM_Auto", "RCTWM_WeightedBoth",
                   <<-200, 200>>, <<-200, 200>>, <<300, 700>>, <<300, 700>>)
      [] type = "STEP" ->
            Branch("step", "RCIM_Constant", "RCTM_Break", "RCTWM_WeightedNone",
                   <<>>, <<>>, <<>>, <<>>)
      [] type = "RANDOM" ->
            Branch("random", "RCIM_Linear", "RCTM_Break", "RCTWM_WeightedNone",
                   <<-500, 500>>, <<-500, 500>>, <<0, 1000>>, <<0, 1000>>)
      [] type = "QUADRATIC" ->
            Branch("formula", "RCIM_Cubic", "RCTM_Auto", "RCTWM_WeightedBoth",
                   <<-300, 300>>, <<-300, 300>>, <<200, 600>>, <<200, 600>>)
      [] type = "HYPERBOLIC" ->
            Branch("formula", "RCIM_Cubic", "RCTM_Auto", "RCTWM_WeightedBoth",
                   <<-400, 400>>, <<-400, 400>>, <<300, 700>>, <<300, 700>>)
      [] type = "LERP" ->
            Branch("formula", "RCIM_Linear", "RCTM_Break", "RCTWM_WeightedNone",
                   <<>>, <<>>, <<>>, <<>>)
      [] type = "DRAGON" ->
            Branch("formula", "RCIM_Cubic", "RCTM_User", "RCTWM_WeightedBoth",
                   <<-300, 300>>, <<-300, 300>>, <<300, 700>>, <<300, 700>>)
      [] type = "CYCLE" ->
            Branch("formula", "RCIM_Cubic", "RCTM_Auto", "RCTWM_WeightedArrive",
                   <<-200, 200>>, <<-200, 200>>, <<300, 700>>, <<300, 700>>)
      [] type = "RAINBOW" ->
            Branch("formula", "RCIM_Cubic", "RCTM_User", "RCTWM_WeightedBoth",
                   <<-300, 300>>, <<-300, 300>>, <<300, 700>>, <<300, 700>>)
      [] type = "EULER_SPIRAL" ->
            Branch("formula", "RCIM_Cubic", "RCTM_User", "RCTWM_WeightedBoth",
                   <<-400, 400>>, <<-400, 400>>, <<300, 700>>, <<300, 700>>)
      [] type = "FIBONACCI_WEIGHTED" ->
            Branch("formula", "RCIM_Cubic", "RCTM_User", "RCTWM_WeightedBoth",
                   <<-500, 500>>, <<-500, 500>>, <<300, 700>>, <<300, 700>>)
      [] OTHER ->
            Branch("random", "RCIM_Linear", "RCTM_Break", "RCTWM_WeightedNone",
                   <<-500, 500>>, <<-500, 500>>, <<0, 1000>>, <<0, 1000>>)

\* the number of random draws a branch makes for one key
ValueDraws(b) == IF b.value_kind = "formula" THEN 0 ELSE 1
TangentDraws(b) ==
    Len(b.arrive_tangent) \div 2 + Len(b.leave_tangent) \div 2
    + Len(b.arrive_tangent_weight) \div 2 + Len(b.leave_tangent_weight) \div 2

\* a tangent scalar drawn from 0 up to the range's upper end
TangentScalarFromZero(range, r) == IF range = <<>> THEN 0 ELSE Uniform(0, range[2], r)

\* a tangent scalar: the literal 0, or random.uniform over the branch's range
TangentScalar(range, r) == IF range = <<>> THEN 0 ELSE Uniform(range[1], range[2], r)

\* the STEP branch: the threshold is drawn where the key's value is computed
StepThreshold(r) == Uniform(300, 700, r)
StepValue(t, step_position) == IF t < step_position THEN 0 ELSE 1000

\* one pass of the loop body up to the noise: the key of time t, its draws
\* being those after draw number d of the call
BranchKey(b, type, t, seed, d) ==
    LET nv == ValueDraws(b)
        n1 == Len(b.arrive_tangent) \div 2
        n2 == n1 + Len(b.leave_tangent) \div 2
        n3 == n2 + Len(b.arrive_tangent_weight) \div 2
    IN  [ interpMode |-> b.interp_mode,
          tangentMode |-> b.tangent_mode,
          tangentWeightMode |-> b.tangent_weight_mode,
          time |-> t,
          value |-> CASE b.value_kind = "formula" -> ShapeValue(type, t)
                      [] b.value_kind = "step" ->
                            StepValue(t, StepThreshold(Rnd(seed, d + 1)))
                      [] b.value_kind = "random" -> Uniform(0, 1000, Rnd(seed, d + 1)),
          arriveTangent |-> TangentScalar(b.arrive_tangent, Rnd(seed, d + nv + 1)),
          arriveTangentWeight |->
              TangentScalar(b.arrive_tangent_weight, Rnd(seed, d + nv + n2 + 1)),
          leaveTangent |-> TangentScalar(b.leave_tangent, Rnd(seed, d + nv + n1 + 1)),
          leaveTangentWeight |->
              TangentScalar(b.leave_tangent_weight, Rnd(seed, d + nv + n3 + 1)) ]

\* noise_range = 0.1 / (math.log(num_keys + 1) + 1)
NoiseRange(num_keys) == TruncDiv(100 * 1000, MathLog((num_keys + 1) * 1000) + 1000)

FloatCurve(keys) ==
    [ keys |-> keys,
      defaultValue |-> "3.4028234663852886e+38",
      preInfinityExtrap |-> "RCCE_Constant",
      postInfinityExtrap |-> "RCCE_Constant" ]

Return(v) == [kind |-> "return", value |-> v]
Raise(e) == [kind |-> "raise", value |-> e]

\* the times in the order they are drawn
UnsortedTimes(seed, d, num_keys) ==
    [i \in 1..num_keys |-> Uniform(0, 1000, Rnd(seed, d + i))]

\* times = sorted(random.uniform(0, 1) for _ in range(num_keys)), the draws
\* being those after draw number d
SortedTimes(seed, d, num_keys) ==
    Sorted([i \in 1..num_keys |-> Uniform(0, 1000, Rnd(seed, d + i))])

\* the loop body of generate_random_float_curve for key i; c holds the
\* locals set before the loop
RandomCurveKey(c, times, i) ==
    LET d == c.d + (i - 1) * c.per
    IN  Eval(BranchKey(c.b, c.type, times[i], c.seed, d),
             LAMBDA raw :
                [raw EXCEPT !.value =
                    clamp(raw.value
                          + Uniform(-c.noise_range, c.noise_range, Rnd(c.seed, d + c.per)),
                          0, 1000)])

\* the locals of generate_random_float_curve before its loop: the family,
\* the key count n, the number d of draws made so far (the times' included)
\* and the number per of draws of one pass of the loop
RandomCurveLocals(min_keys, max_keys, float_curve_type, seed) ==
    LET d0    == IF float_curve_type = "None" THEN 1 ELSE 0
        type  == IF float_curve_type = "None"
                 THEN Choice(FloatCurveType, Rnd(seed, 1)) ELSE float_curve_type
        num_keys == RandInt(min_keys, max_keys, Rnd(seed, d0 + 1))
        n     == Max2(num_keys, 0)
        b     == RandomCurveBranch(type)
    IN  [ type |-> type, seed |-> seed, n |-> n, b |-> b,
          d |-> d0 + 1 + n,
          per |-> ValueDraws(b) + TangentDraws(b) + 1,
          noise_range |-> IF n = 0 THEN 0 ELSE NoiseRange(num_keys) ]

\* CurveHelper.generate_random_float_curve; float_curve_type "None" is None
generate_random_float_curve(min_keys, max_keys, float_curve_type, seed) ==
    IF min_keys > max_keys THEN Raise("ValueError")
    ELSE Eval(RandomCurveLocals(min_keys, max_keys, float_curve_type, seed),
              LAMBDA c :
                Eval(SortedTimes(seed, c.d - c.n, c.n),
                     LAMBDA times :
                        Return(FloatCurve([i \in 1..c.n |-> RandomCurveKey(c, times, i)]))))

\* the number of draws one call of generate_random_float_curve makes
RandomCurveDraws(min_keys, max_keys, float_curve_type, seed) ==
    Eval(RandomCurveLocals(min_keys, max_keys, float_curve_type, seed),
         LAMBDA c : c.d + c.n * c.per)

\* min_keys, max_keys of generate_float_curve
ScaledMinKeys == 2
ScaledMaxKeys == 100

\* default_key_counts of generate_float_curve
default_key_counts ==
    [ PARABOLIC |-> 120, SINUSOIDAL |-> 130, EXPONENTIAL |-> 115,
      LOGARITHMIC |-> 115, BELL |-> 125, CUBIC |-> 120, STEP |-> 110,
      QUADRATIC |-> 120, HYPERBOLIC |-> 115, LERP |-> 110, DRAGON |-> 140,
      CYCLE |-> 130, RAINBOW |-> 150, EULER_SPIRAL |-> 135,
      FIBONACCI_WEIGHTED |-> 125, RANDOM |-> 150 ]

\* a num_keys rounded to the nearest whole number
ScaledNumKeysRounded(default_num_keys, resolution_scale) ==
    LET num_keys == (default_num_keys * resolution_scale + 500) \div 1000
    IN  Max2(ScaledMinKeys, Min2(num_keys, ScaledMaxKeys))

\* num_keys of generate_float_curve for a family other than RANDOM
ScaledNumKeys(default_num_keys, resolution_scale) ==
    LET num_keys == PyInt(default_num_keys * resolution_scale)
    IN  Max2(ScaledMinKeys, Min2(num_keys, ScaledMaxKeys))

\* a noise step that adds the unscaled noise whatever noise_scale is
UnscaledNoise(value, noise_scale, noise_range, r) ==
    clamp(value + Uniform(-noise_range, noise_range, r), 0, 1000)

\* the noise step of generate_float_curve on the value of one key
ScaledNoise(value, noise_scale, noise_range, r) ==
    IF noise_scale # 0
    THEN clamp(value + Mul(Uniform(-noise_range, noise_range, r), noise_scale), 0, 1000)
    ELSE value

\* the loop body of generate_float_curve for key i; c holds the locals set
\* before the loop
ScaledCurveKey(c, times, i) ==
    LET d == c.d + (i - 1) * c.per
    IN  Eval(BranchKey(c.b, c.type, times[i], c.seed, d),
             LAMBDA raw :
                [raw EXCEPT !.value =
                    ScaledNoise(raw.value, c.noise_scale, c.noise_range,
                                Rnd(c.seed, d + c.per))])

\* the locals of generate_float_curve before its loop.  The default argument
\* of default_key_counts.get is evaluated, and draws, on every call.
ScaledCurveLocals(float_curve_type, resolution_scale, noise_scale, seed) ==
    LET d0   == IF float_curve_type = "None" THEN 1 ELSE 0
        type  == IF float_curve_type = "None"
                 THEN Choice(FloatCurveType, Rnd(seed, 1)) ELSE float_curve_type
        fallback == RandInt(ScaledMinKeys, ScaledMaxKeys, Rnd(seed, d0 + 1))
        default_num_keys ==
            IF type \in DOMAIN default_key_counts
            THEN default_key_counts[type] ELSE fallback
        d1    == IF type = "RANDOM" THEN d0 + 2 ELSE d0 + 1
        num_keys ==
            IF type = "RANDOM"
            THEN RandInt(ScaledMinKeys, ScaledMaxKeys, Rnd(seed, d0 + 2))
            ELSE ScaledNumKeys(default_num_keys, resolution_scale)
        b     == ScaledCurveBranch(type)
    IN  [ type |-> type, seed |-> seed, n |-> num_keys, b |-> b,
          noise_scale |-> noise_scale,
          d |-> d1 + num_keys,
          per |-> ValueDraws(b) + TangentDraws(b)
                  + (IF noise_scale # 0 THEN 1 ELSE 0),
          noise_range |-> NoiseRange(num_keys) ]

\* CurveHelper.generate_float_curve; float_curve_type "None" is None
generate_float_curve(float_curve_type, resolution_scale, noise_scale, seed) ==
    Eval(ScaledCurveLocals(float_curve_type, resolution_scale, noise_scale, seed),
         LAMBDA c :
            Eval(SortedTimes(seed, c.d - c.n, c.n),
                 LAMBDA times :
                    Return(FloatCurve([i \in 1..c.n |-> ScaledCurveKey(c, times, i)]))))

\* the number of draws one call of generate_float_curve makes
ScaledCurveDraws(float_curve_type, resolution_scale, noise_scale, seed) ==
    Eval(ScaledCurveLocals(float_curve_type, resolution_scale, noise_scale, seed),
         LAMBDA c : c.d + c.n * c.per)

(***************************************************************************)
(* Python values                                                           *)
(*                                                                         *)
(* A JSON value is tagged with its Python type.  A str is the tuple of its *)
(* characters, a dict a function from its keys to values, a number a       *)
(* fixed-point number.                                                     *)
(***************************************************************************)
PyNone == [tag |-> "none"]
Str(chars) == [tag |-> "str", chars |-> chars]
\* the number x / 1000
Num(x) == [tag |-> "num", num |-> x, fine |-> 0]
\* the number x / 1000 + f / 10^9, a float between two thousandths: f has
\* the sign of x and |f| < 10^6
Fine(x, f) == [tag |-> "num", num |-> x, fine |-> f]
Dict(items) == [tag |-> "dict", items |-> items]
List(elems) == [tag |-> "list", elems |-> elems]

\* dict.get(key, default)
Get(d, key, default) == IF key \in DOMAIN d.items THEN d.items[key] ELSE default

\* bool(value) of a dict or None
Truthy(v) == v.tag = "dict" /\ DOMAIN v.items # {}

LowerCase == <<"a", "b", "c", "d", "e", "f", "g", "h", "i", "j", "k", "l", "m", "n", "o", "p", "q", "r", "s", "t", "u", "v", "w", "x", "y", "z">>
UpperCase == <<"A", "B", "C", "D", "E", "F", "G", "H", "I", "J", "K", "L", "M", "N", "O", "P", "Q", "R", "S", "T", "U", "V", "W", "X", "Y", "Z">>

\* str.upper() of one character
UpperChar(c) ==
    IF \E i \in 1..Len(LowerCase) : LowerCase[i] = c
    THEN UpperCase[CHOOSE i \in 1..Len(LowerCase) : LowerCase[i] = c]
    ELSE c

\* str.upper()
Upper(chars) == [i \in 1..Len(chars) |-> UpperChar(chars[i])]

\* the name of each member of FloatCurveType, as a str
MemberName ==
    [ PARABOLIC |-> <<"P", "A", "R", "A", "B", "O", "L", "I", "C">>,
      SINUSOIDAL |-> <<"S", "I", "N", "U", "S", "O", "I", "D", "A", "L">>,
      EXPONENTIAL |-> <<"E", "X", "P", "O", "N", "E", "N", "T", "I", "A", "L">>,
      LOGARITHMIC |-> <<"L", "O", "G", "A", "R", "I", "T", "H", "M", "I", "C">>,
      BELL |-> <<"B", "E", "L", "L">>,
      CUBIC |-> <<"C", "U", "B", "I", "C">>,
      STEP |-> <<"S", "T", "E", "P">>,
      RANDOM |-> <<"R", "A", "N", "D", "O", "M">>,
      QUADRATIC |-> <<"Q", "U", "A", "D", "R", "A", "T", "I", "C">>,
      HYPERBOLIC |-> <<"H", "Y", "P", "E", "R", "B", "O", "L", "I", "C">>,
      LERP |-> <<"L", "E", "R", "P">>,
      DRAGON |-> <<"D", "R", "A", "G", "O", "N">>,
      CYCLE |-> <<"C", "Y", "C", "L", "E">>,
      RAINBOW |-> <<"R", "A", "I", "N", "B", "O", "W">>,
      EULER_SPIRAL |-> <<"E", "U", "L", "E", "R", "_", "S", "P", "I", "R", "A", "L">>,
      FIBONACCI_WEIGHTED |-> <<"F", "I", "B", "O", "N", "A", "C", "C", "I", "_", "W", "E", "I", "G", "H", "T", "E", "D">> ]

\* FloatCurveType[name]: the member of that name, or KeyError
FloatCurveTypeByName(chars) ==
    IF \E m \in FloatCurveTypes : MemberName[m] = chars
    THEN Return(CHOOSE m \in FloatCurveTypes : MemberName[m] = chars)
    ELSE Raise("KeyError")

\* str(value), as "{}".format(value) writes it
Format(v) ==
    CASE v.tag = "str" -> v.chars
      [] v.tag = "none" -> <<"N", "o", "n", "e">>

\* '-'.join(parts)
RECURSIVE Join(_)
Join(parts) ==
    IF Len(parts) = 0 THEN <<>>
    ELSE IF Len(parts) = 1 THEN parts[1]
    ELSE parts[1] \o <<"-">> \o Join(Tail(parts))

\* str.strip("-")
RECURSIVE Strip(_)
Strip(chars) ==
    IF Len(chars) = 0 THEN chars
    ELSE IF Head(chars) = "-" THEN Strip(Tail(chars))
    ELSE IF chars[Len(chars)] = "-" THEN Strip(SubSeq(chars, 1, Len(chars) - 1))
    ELSE chars

(***************************************************************************)
(* Record assembler                                                        *)
(***************************************************************************)
Channels == <<"R", "G", "B", "A">>

UnnamedCurve == Str(<<"U", "n", "n", "a", "m", "e", "d", " ", "C", "u", "r", "v", "e">>)
Parabolic == Str(<<"P", "A", "R", "A", "B", "O", "L", "I", "C">>)
EmptyStr == Str(<<>>)

\* a get_enum that lets the KeyError of an unknown name through
get_enum_strict(json_data, json_key, default) ==
    LET name == Get(json_data, json_key, default)
    IN  IF name.tag # "str" THEN Raise("AttributeError")
        ELSE FloatCurveTypeByName(Upper(name.chars))

\* get_enum of generate_color_curve_from_spec: only KeyError is caught
get_enum(json_data, json_key, default) ==
    LET name == Get(json_data, json_key, default)
    IN  IF name.tag # "str" THEN Raise("AttributeError")
        ELSE LET member == FloatCurveTypeByName(Upper(name.chars))
             IN  IF member.kind = "raise" /\ member.value = "KeyError"
                 THEN Return("PARABOLIC")
                 ELSE member

\* the offsets of consecutive calls of generate_random_float_curve(2, 100,
\* type): the call for types[i] finds the generator off[i] draws after seed
RECURSIVE RandomCurveOffsets(_, _, _)
RandomCurveOffsets(types, seed, off) ==
    IF types = <<>> THEN <<off>>
    ELSE Eval(off, LAMBDA o :
            <<o>> \o RandomCurveOffsets(Tail(types), seed,
                        o + RandomCurveDraws(2, 100, Head(types), seed + o)))

\* the same for consecutive calls of generate_float_curve; a call is
\* <<float_curve_type, resolution_scale, noise_scale>>
RECURSIVE ScaledCurveOffsets(_, _, _)
ScaledCurveOffsets(calls, seed, off) ==
    IF calls = <<>> THEN <<off>>
    ELSE Eval(off, LAMBDA o :
            <<o>> \o ScaledCurveOffsets(Tail(calls), seed,
                        o + ScaledCurveDraws(Head(calls)[1], Head(calls)[2],
                                             Head(calls)[3], seed + o)))

\* the seven adjustment scalars, drawn after draw number d
Adjustments(randomize_adjustments, seed, d) ==
    [ adjustHue |-> Uniform(0, randomize_adjustments, Rnd(seed, d + 1)),
      adjustSaturation |-> Uniform(0, randomize_adjustments, Rnd(seed, d + 2)),
      adjustBrightness |-> Uniform(0, randomize_adjustments, Rnd(seed, d + 3)),
      adjustBrightnessCurve |-> Uniform(0, randomize_adjustments, Rnd(seed, d + 4)),
      adjustVibrance |-> Uniform(0, randomize_adjustments, Rnd(seed, d + 5)),
      adjustMinAlpha |-> Uniform(0, randomize_adjustments, Rnd(seed, d + 6)),
      adjustMaxAlpha |-> Uniform(0, randomize_adjustments, Rnd(seed, d + 7)) ]

AssetImportData ==
    ("_ClassName" :> "/Script/Engine.AssetImportData") @@ ("sourceData" :> <<>>)

\* a curve_type_comp that joins the names in the alphabetical order of the
\* channels: A, B, G, R
RandomCurveTypeCompAlphabetical(types) ==
    Str(Join(<< MemberName[types[4]], MemberName[types[3]],
                MemberName[types[2]], MemberName[types[1]] >>))

\* '-'.join([curve_type.name for curve_type in float_curve_types.values()])
RandomCurveTypeComp(types) == Str(Join([i \in 1..4 |-> MemberName[types[i]]]))

\* CurveHelper.generate_random_color_curve: curve_id is what uuid.uuid4()
\* gives, now what time.strftime gives
generate_random_color_curve(seed, curve_id, now) ==
    LET float_curve_types == [i \in 1..4 |-> Choice(FloatCurveType, Rnd(seed, i))]
    IN  Eval(RandomCurveOffsets(float_curve_types, seed, 4), LAMBDA off :
            Return(
              [ curve_id |-> curve_id,
                curve_type_comp |-> RandomCurveTypeComp(float_curve_types),
                curve_json |->
                  [ floatCurves |->
                      [c \in {"R", "G", "B", "A"} |->
                          LET i == CHOOSE j \in 1..4 : Channels[j] = c
                          IN  generate_random_float_curve(2, 100, float_curve_types[i],
                                                          seed + off[i]).value],
                    assetImportData |-> AssetImportData,
                    created_at |-> now ]
                  @@ Adjustments(100, seed, off[5]) ]))

\* generate_color_curve_from_spec without json_data: curve_id is what
\* uuid.uuid4() gives, now what time.strftime gives
AssembleRandom(float_curve_type, seed, curve_id, now) ==
    LET picks == IF float_curve_type = "None" THEN 4 ELSE 0
        types == [i \in 1..4 |->
                    IF float_curve_type = "None"
                    THEN Choice(FloatCurveType, Rnd(seed, i)) ELSE float_curve_type]
    IN  Eval(RandomCurveOffsets(types, seed, picks), LAMBDA off :
            Return(
              [ curve_id |-> curve_id,
                curve_type_comp |-> RandomCurveTypeComp(types),
                curve_json |->
                  [ floatCurves |->
                      [ R |-> generate_random_float_curve(2, 100, types[1], seed + off[1]).value,
                        G |-> generate_random_float_curve(2, 100, types[2], seed + off[2]).value,
                        B |-> generate_random_float_curve(2, 100, types[3], seed + off[3]).value,
                        A |-> generate_random_float_curve(2, 100, types[4], seed + off[4]).value ],
                    assetImportData |-> AssetImportData,
                    created_at |-> now ]
                  @@ Adjustments(0, seed, off[5]) ]))

\* the six calls of generate_float_curve of spec mode: R, G, B, A, then the
\* x and the y offset curve
SpecCurveKeys ==
    << <<"R_float_curve_type", "R_resolution_scale", "R_noise_scale">>,
       <<"G_float_curve_type", "G_resolution_scale", "G_noise_scale">>,
       <<"B_float_curve_type", "B_resolution_scale", "B_noise_scale">>,
       <<"A_float_curve_type", "A_resolution_scale", "A_noise_scale">>,
       <<"meta_x_offset_curve_type", "meta_x_resolution_scale", "meta_x_noise_scale">>,
       <<"meta_y_offset_curve_type", "meta_y_resolution_scale", "meta_y_noise_scale">> >>

\* curve_type_comp of spec mode
SpecCurveTypeComp(json_data) ==
    IF Truthy(json_data)
    THEN Str(Strip(Join(<< Format(Get(json_data, "name", UnnamedCurve)),
                           Format(Get(json_data, "R_float_curve_type", EmptyStr)),
                           Format(Get(json_data, "G_float_curve_type", EmptyStr)),
                           Format(Get(json_data, "B_float_curve_type", EmptyStr)),
                           Format(Get(json_data, "A_float_curve_type", EmptyStr)) >>)))
    ELSE Get(json_data, "name", UnnamedCurve)

\* generate_color_curve_from_spec with json_data, up to the metadata hook
AssembleFromSpec(json_data, seed, curve_id, now) ==
    LET types == [i \in 1..6 |-> get_enum(json_data, SpecCurveKeys[i][1], Parabolic)]
        calls == [i \in 1..6 |->
                    << types[i].value,
                       Get(json_data, SpecCurveKeys[i][2], Num(1000)).num,
                       Get(json_data, SpecCurveKeys[i][3], Num(0)).num >>]
        randomize_adjustments ==
            IF Truthy(json_data) THEN Get(json_data, "randomize_adjustments", Num(0)).num
            ELSE 0
        curve(c, off, i) == generate_float_curve(c[i][1], c[i][2], c[i][3], seed + off[i]).value
    IN  IF \E i \in 1..6 : types[i].kind = "raise"
        THEN types[CHOOSE i \in 1..6 :
                      types[i].kind = "raise" /\ \A j \in 1..(i - 1) : types[j].kind # "raise"]
        ELSE Eval(calls, LAMBDA c : Eval(ScaledCurveOffsets(c, seed, 0), LAMBDA off :
            Return(
              [ curve_id |-> curve_id,
                name |-> Get(json_data, "name", UnnamedCurve),
                description |-> Get(json_data, "description", EmptyStr),
                curve_type_comp |-> SpecCurveTypeComp(json_data),
                curve_json |->
                  [ floatCurves |->
                      [ R |-> curve(c, off, 1), G |-> curve(c, off, 2),
                        B |-> curve(c, off, 3), A |-> curve(c, off, 4) ],
                    assetImportData |-> AssetImportData,
                    created_at |-> now,
                    metaCurves |->
                      [ x_offset_curve |-> curve(c, off, 5),
                        y_offset_curve |-> curve(c, off, 6),
                        x_offset_scale |-> Get(json_data, "meta_x_offset_scale", Num(0)),
                        y_offset_scale |-> Get(json_data, "meta_y_offset_scale", Num(0)) ] ]
                  @@ Adjustments(randomize_adjustments, seed, off[7]) ])))

\* a generate_color_curve_from_spec that takes an empty spec for no spec
generate_color_curve_unless_empty(json_data, float_curve_type, seed, curve_id, now) ==
    IF ~Truthy(json_data)
    THEN AssembleRandom(float_curve_type, seed, curve_id, now)
    ELSE AssembleFromSpec(json_data, seed, curve_id, now)

\* CurveHelper.generate_color_curve_from_spec, up to the metadata hook
generate_color_curve_from_spec(json_data, float_curve_type, seed, curve_id, now) ==
    IF json_data.tag = "none"
    THEN AssembleRandom(float_curve_type, seed, curve_id, now)
    ELSE AssembleFromSpec(json_data, seed, curve_id, now)

\* dict.get(key, default) of a JSON object held as a record
Field(data, key, default) == IF key \in DOMAIN data THEN data[key] ELSE default

\* the float_curve the export builds of one channel's curve
ExportedCurve(curve) ==
    [ keys |-> Field(curve, "keys", <<>>),
      defaultValue |-> Field(curve, "defaultValue", "3.4028234663852886e+38"),
      preInfinityExtrap |-> Field(curve, "preInfinityExtrap", "RCCE_Constant"),
      postInfinityExtrap |-> Field(curve, "postInfinityExtrap", "RCCE_Constant") ]

\* the list of the float_curve of every channel of channels, in that order,
\* that float_curves holds
ExportedCurvesIn(float_curves, channels) ==
    LET present == SelectSeq(channels, LAMBDA channel : channel \in DOMAIN float_curves)
    IN  [i \in 1..Len(present) |-> ExportedCurve(float_curves[present[i]])]

\* an export list in the alphabetical order of the channels
ExportedCurvesAlphabetical(float_curves) ==
    ExportedCurvesIn(float_curves, <<"A", "B", "G", "R">>)

\* for channel in ["R", "G", "B", "A"]: ... new_data["floatCurves"].append
ExportedCurves(float_curves) == ExportedCurvesIn(float_curves, Channels)

AdjustFields ==
    { "adjustHue", "adjustSaturation", "adjustBrightness", "adjustBrightnessCurve",
      "adjustVibrance", "adjustMinAlpha", "adjustMaxAlpha" }

\* an export that keeps every top-level field of the input but floatCurves
convert_keeping_all_fields(input_json) ==
    [k \in DOMAIN input_json \cup {"floatCurves"} |->
        IF k = "floatCurves"
        THEN ExportedCurves(Field(input_json, "floatCurves", <<>>))
        ELSE input_json[k]]

\* CurveHelper.convert_to_UE_output_format.  input_json and the result are
\* JSON texts, held here as the objects json.loads reads from them: a
\* record for an object, <<>> for the empty object and the empty list.
convert_to_UE_output_format(input_json) ==
    [k \in {"floatCurves", "assetImportData"} \cup AdjustFields |->
        CASE k = "floatCurves" -> ExportedCurves(Field(input_json, "floatCurves", <<>>))
          [] k = "assetImportData" -> Field(input_json, "assetImportData", <<>>)
          [] OTHER -> Field(input_json, k, 0)]

\* the metadata-append hook, an external collaborator: it records the call
append_metadata(log, curve_id, name) == Append(log, <<curve_id, name>>)

\* a call that invokes the hook in random mode as well
MetadataAppendedInEveryMode(log, result, json_data, curve_id) ==
    IF result.kind = "return"
    THEN append_metadata(log, curve_id,
                         IF json_data.tag = "none" THEN UnnamedCurve
                         ELSE Get(json_data, "name", UnnamedCurve))
    ELSE log

\* the log after a call of generate_color_curve_from_spec whose record is
\* result: the hook is called where final_json is built in spec mode, with
\* curve_id and json_data.get("name", "Unnamed Curve")
MetadataAppended(log, result, json_data, curve_id) ==
    IF result.kind = "return" /\ json_data.tag # "none"
    THEN append_metadata(log, curve_id, Get(json_data, "name", UnnamedCurve))
    ELSE log

(***************************************************************************)
(* Operations of Python on JSON values: each gives Return(value) or        *)
(* Raise(exception type)                                                   *)
(***************************************************************************)
\* value[key] for a str key
Subscript(v, key) ==
    IF v.tag = "dict"
    THEN IF key \in DOMAIN v.items THEN Return(v.items[key]) ELSE Raise("KeyError")
    ELSE Raise("TypeError")

\* key in value, for a one-character str key
Contains(key, v) ==
    CASE v.tag = "dict" -> Return(key \in DOMAIN v.items)
      [] v.tag = "list" -> Return(\E i \in 1..Len(v.elems) : v.elems[i] = Str(<<key>>))
      [] v.tag = "str"  -> Return(\E i \in 1..Len(v.chars) : v.chars[i] = key)
      [] OTHER -> Raise("TypeError")

\* len(value)
PyLen(v) ==
    CASE v.tag = "list" -> Return(Len(v.elems))
      [] v.tag = "str"  -> Return(Len(v.chars))
      [] v.tag = "dict" -> Return(Cardinality(DOMAIN v.items))
      [] OTHER -> Raise("TypeError")

\* value[0] of a value of length 1
First(v) ==
    CASE v.tag = "list" -> Return(v.elems[1])
      [] v.tag = "str"  -> Return(Str(<<v.chars[1]>>))
      [] v.tag = "dict" -> Raise("KeyError")

\* the elements a for loop over value visits, for a list
Elements(v) == v.elems

\* abs(value)
PyAbs(v) == IF v.tag = "num" THEN Return(Abs(v.num)) ELSE Raise("TypeError")

\* the first exception among the results, or the values of all of them
Collect(results) ==
    IF \E i \in 1..Len(results) : results[i].kind = "raise"
    THEN results[CHOOSE i \in 1..Len(results) :
                    /\ results[i].kind = "raise"
                    /\ \A j \in 1..(i - 1) : results[j].kind = "return"]
    ELSE Return([i \in 1..Len(results) |-> results[i].value])

\* the first exception of a, else b
Then(a, b) == IF a.kind = "raise" THEN a ELSE b

(***************************************************************************)
(* Rasterizer                                                              *)
(***************************************************************************)
TextureWidth == 128

\* abs(v) < epsilon, epsilon = 1e-6, for the number v
BelowEpsilon(v) == v.num = 0 /\ Abs(v.fine) < 1000

\* the branch of extract_curve_data for a curve of len n other than 1.
\* Iterating a non-empty str or dict gives str elements, whose subscript by
\* 'time' is a TypeError.
ExtractKeys(curve, n) ==
    IF curve.tag # "list" /\ n > 0 THEN Raise("TypeError")
    ELSE LET keys == IF curve.tag = "list" THEN Elements(curve) ELSE <<>>
             times == Collect([i \in 1..Len(keys) |-> Subscript(keys[i], "time")])
             values == Collect([i \in 1..Len(keys) |-> Subscript(keys[i], "value")])
             snapped ==
                Collect([i \in 1..Len(keys) |->
                    Eval(PyAbs(values.value[i]), LAMBDA a :
                        IF a.kind = "raise" THEN a
                        ELSE IF BelowEpsilon(values.value[i]) THEN Return(Num(0))
                        ELSE Return(values.value[i]))])
         IN  Then(times, Then(values, Then(snapped,
                  Return(<<times.value, snapped.value>>))))

\* an extract_curve_data without the branch for a single keyframe
extract_curve_data_no_single(curve) ==
    Eval(PyLen(curve), LAMBDA n :
        IF n.kind = "raise" THEN n ELSE ExtractKeys(curve, n.value))

\* CurveHelper.extract_curve_data: <<times, values>> of the keys of one
\* channel
extract_curve_data(curve) ==
    Eval(PyLen(curve), LAMBDA n :
        IF n.kind = "raise" THEN n
        ELSE IF n.value = 1
        THEN Eval(Then(First(curve), Subscript(First(curve).value, "value")),
                  LAMBDA constant_value :
                    IF constant_value.kind = "raise" THEN constant_value
                    ELSE Return(<< <<Num(0), Num(1000)>>,
                                   <<constant_value.value, constant_value.value>> >>))
        ELSE ExtractKeys(curve, n.value))

\* np.interp at x = i/(width - 1) over the sample points xp (increasing)
\* with values fp, all fixed-point numbers
InterpAt(i, width, xp, fp) ==
    LET n == Len(xp)
        \* x < xp[j] and x >= xp[j], cross-multiplied
        before(j) == i * 1000 < xp[j] * (width - 1)
    IN  IF before(1) THEN fp[1]
        ELSE IF ~before(n) THEN fp[n]
        ELSE LET j == CHOOSE k \in 1..(n - 1) : ~before(k) /\ before(k + 1)
             IN  fp[j] + TruncDiv((i * 1000 - xp[j] * (width - 1)) * (fp[j + 1] - fp[j]),
                                  (xp[j + 1] - xp[j]) * (width - 1))

\* np.interp(np.linspace(0, 1, width), xp, fp) for lists of JSON values: the
\* lists are cast to float arrays (TypeError for an element that is no
\* number), an empty xp is a ValueError.  The samples are computed to the
\* thousandth.
Interp(width, xp, fp) ==
    IF \E i \in 1..Len(fp) : fp[i].tag # "num" THEN Raise("TypeError")
    ELSE IF \E i \in 1..Len(xp) : xp[i].tag # "num" THEN Raise("TypeError")
    ELSE IF Len(xp) = 0 THEN Raise("ValueError")
    ELSE Eval(<<[i \in 1..Len(xp) |-> xp[i].num], [i \in 1..Len(fp) |-> fp[i].num]>>,
              LAMBDA p : Return([i \in 1..width |-> InterpAt(i - 1, width, p[1], p[2])]))

\* np.allclose(a, a[0]): |a[i] - a[0]| <= 1e-8 + 1e-5 * |a[0]|
\* an all-equal test written as a.all() == a[0]: the truth value of "no
\* sample is 0" compared with the first sample
AllCloseOfTruthValue(a) ==
    IF \A i \in 1..Len(a) : a[i] # 0 THEN a[1] = 1000 ELSE a[1] = 0

AllClose(a) == \A i \in 1..Len(a) : 100000 * Abs(a[i] - a[1]) <= 1 + Abs(a[1])

SeqMin(a) == CHOOSE x \in {a[i] : i \in 1..Len(a)} : \A i \in 1..Len(a) : x <= a[i]
SeqMax(a) == CHOOSE x \in {a[i] : i \in 1..Len(a)} : \A i \in 1..Len(a) : x >= a[i]

\* a remap that does not move old_min to new_min first
remap_unshifted(value, old_min, old_max, new_min, new_max) ==
    TruncDiv(value * (new_max - new_min), old_max - old_min) + new_min

\* a remap whose cast gives the nearest whole number of bytes
remap_rounded(value, old_min, old_max, new_min, new_max) ==
    ((2 * (value - old_min) * (new_max - new_min) + (old_max - old_min))
        \div (2 * (old_max - old_min))) + new_min

\* CurveHelper.remap of one value, cast to uint8: the result is a whole
\* number of bytes
remap(value, old_min, old_max, new_min, new_max) ==
    TruncDiv((value - old_min) * (new_max - new_min), old_max - old_min) + new_min

\* nearest whole number to x/1000, halves to the even one (Python's round)
Round(x) ==
    LET q == x \div 1000
        r == x % 1000
    IN  IF r > 500 \/ (r = 500 /\ q % 2 = 1) THEN q + 1 ELSE q

\* a process_alpha_channel that rounds the flat value to the nearest byte
process_alpha_channel_rounded(alpha_normalized) ==
    IF AllClose(alpha_normalized)
    THEN [i \in 1..Len(alpha_normalized) |-> Round(alpha_normalized[1] * 255)]
    ELSE Eval(<<SeqMin(alpha_normalized), SeqMax(alpha_normalized)>>, LAMBDA m :
            IF m[1] = m[2] THEN [i \in 1..Len(alpha_normalized) |-> 255]
            ELSE [i \in 1..Len(alpha_normalized) |->
                    remap(alpha_normalized[i], m[1], m[2], 0, 255)])

\* CurveHelper.process_alpha_channel: the samples are fixed-point numbers,
\* the result whole numbers of bytes
process_alpha_channel(alpha_normalized) ==
    IF AllClose(alpha_normalized)
    THEN [i \in 1..Len(alpha_normalized) |-> PyInt(alpha_normalized[1] * 255)]
    ELSE Eval(<<SeqMin(alpha_normalized), SeqMax(alpha_normalized)>>, LAMBDA m :
            IF m[1] = m[2] THEN [i \in 1..Len(alpha_normalized) |-> 255]
            ELSE [i \in 1..Len(alpha_normalized) |->
                    remap(alpha_normalized[i], m[1], m[2], 0, 255)])

\* sum of s[lo..hi]
RECURSIVE SumRange(_, _, _)
SumRange(s, lo, hi) ==
    IF lo > hi THEN 0
    ELSE IF lo = hi THEN s[lo]
    ELSE SumRange(s, lo, (lo + hi) \div 2) + SumRange(s, ((lo + hi) \div 2) + 1, hi)

\* the whole part of the square root of n, between lo and hi
RECURSIVE ISqrt(_, _, _)
ISqrt(n, lo, hi) ==
    IF hi - lo <= 1 THEN lo
    ELSE LET mid == (lo + hi) \div 2
         IN  IF mid * mid <= n THEN ISqrt(n, mid, hi) ELSE ISqrt(n, lo, mid)

\* 2 * np.gradient(a): one-sided differences at the ends, central inside
Gradient2(a) ==
    [i \in 1..Len(a) |->
        IF i = 1 THEN 2 * (a[2] - a[1])
        ELSE IF i = Len(a) THEN 2 * (a[i] - a[i - 1])
        ELSE a[i + 1] - a[i - 1]]

\* np.mean(np.abs(np.gradient(a)))
GradientMean(a) ==
    Eval(Gradient2(a), LAMBDA g :
        TruncDiv(SumRange([i \in 1..Len(g) |-> Abs(g[i])], 1, Len(g)), 2 * Len(g)))

\* np.std(np.gradient(a)) for a row of whole bytes, as a fixed-point number
\* to two decimals
Spikiness(a) ==
    Eval(Gradient2(a), LAMBDA g :
        Eval(TruncDiv(SumRange(g, 1, Len(g)), Len(g)), LAMBDA mean :
            LET variance == SumRange([i \in 1..Len(g) |-> (g[i] - mean) * (g[i] - mean)],
                                     1, Len(g)) \div Len(g)
            IN  10 * ISqrt(variance * 2500, 0, 32768)))

\* all(channel in float_curves for channel in ["R", "G", "B", "A"])
HasChannels(float_curves) ==
    Eval(Collect([i \in 1..4 |-> Contains(Channels[i], float_curves)]), LAMBDA has :
        IF has.kind = "raise" THEN has
        ELSE Return(\A i \in 1..4 : has.value[i]))

\* extract_curve_data(float_curves[channel]["keys"])
ChannelData(float_curves, channel) ==
    Eval(Subscript(float_curves, channel), LAMBDA curve :
        IF curve.kind = "raise" THEN curve
        ELSE Eval(Subscript(curve.value, "keys"), LAMBDA keys :
                IF keys.kind = "raise" THEN keys ELSE extract_curve_data(keys.value)))

\* the steps the rasterizer and the integral share: the four extractions,
\* then the four resamplings, then the alpha remap
Resample(float_curves, width) ==
    Eval(Collect([i \in 1..4 |-> ChannelData(float_curves, Channels[i])]), LAMBDA data :
        IF data.kind = "raise" THEN data
        ELSE Eval(Collect([i \in 1..4 |-> Interp(width, data.value[i][1], data.value[i][2])]),
                  LAMBDA rows :
                    IF rows.kind = "raise" THEN rows
                    ELSE Return([ red_normalized |-> rows.value[1],
                                  green_normalized |-> rows.value[2],
                                  blue_normalized |-> rows.value[3],
                                  alpha_normalized |-> rows.value[4],
                                  alpha_remapped |-> process_alpha_channel(rows.value[4]) ])))

\* the "no result" of the rasterizer: (None, None)
NoThumbnail == Return([image |-> PyNone, gradient_info |-> PyNone])

\* the image: every row of combined_image is the row rgba of <<R, G, B, A>>
\* bytes; it is composited over the checkered background unless
\* transparent_background
Thumbnail(r, transparent_background) ==
    [ tag |-> "image",
      rgba |-> [x \in 1..TextureWidth |->
                  << PyInt(clamp(r.red_normalized[x] * 255, 0, 255000)),
                     PyInt(clamp(r.green_normalized[x] * 255, 0, 255000)),
                     PyInt(clamp(r.blue_normalized[x] * 255, 0, 255000)),
                     clamp(r.alpha_remapped[x], 0, 255) >>],
      background |-> IF transparent_background THEN "none" ELSE "checkered" ]

GradientInfo(r) ==
    [ tag |-> "dict",
      red_gradient_mean |-> GradientMean(r.red_normalized),
      green_gradient_mean |-> GradientMean(r.green_normalized),
      blue_gradient_mean |-> GradientMean(r.blue_normalized),
      alpha_spikiness |-> Spikiness(r.alpha_remapped) ]

\* a rasterizer that, in place of the check of the four channels, fills a
\* missing channel with the red curve
generate_thumbnail_unchecked(curve_json, transparent_background) ==
    Eval(Subscript(curve_json, "floatCurves"), LAMBDA float_curves :
        IF float_curves.kind = "raise"
        THEN IF float_curves.value = "KeyError" THEN NoThumbnail ELSE float_curves
        ELSE Eval(Resample(
                    IF float_curves.value.tag = "dict"
                    THEN Dict([c \in {"R", "G", "B", "A"} |->
                                Get(float_curves.value, c, Get(float_curves.value, "R", PyNone))])
                    ELSE float_curves.value, TextureWidth), LAMBDA r :
                IF r.kind = "raise"
                THEN IF r.value \in {"IndexError", "KeyError", "TypeError"}
                     THEN NoThumbnail ELSE r
                ELSE Return([ image |-> Thumbnail(r.value, transparent_background),
                              gradient_info |-> GradientInfo(r.value) ])))

\* CurveHelper.generate_thumbnail_from_curve
generate_thumbnail_from_curve(curve_json, transparent_background) ==
    Eval(Subscript(curve_json, "floatCurves"), LAMBDA float_curves :
        IF float_curves.kind = "raise"
        THEN IF float_curves.value = "KeyError" THEN NoThumbnail ELSE float_curves
        ELSE Eval(HasChannels(float_curves.value), LAMBDA has :
            IF has.kind = "raise" THEN has
            ELSE IF ~has.value THEN NoThumbnail
            ELSE Eval(Resample(float_curves.value, TextureWidth), LAMBDA r :
                IF r.kind = "raise"
                THEN IF r.value \in {"IndexError", "KeyError", "TypeError"}
                     THEN NoThumbnail ELSE r
                ELSE Return([ image |-> Thumbnail(r.value, transparent_background),
                              gradient_info |-> GradientInfo(r.value) ]))))

\* int((r + g + b) / 3 * (a / 255)) of the samples r, g, b times 255 and the
\* alpha byte a
Grayscale(r, x) ==
    PyInt(TruncDiv(TruncDiv((r.red_normalized[x] + r.green_normalized[x]
                             + r.blue_normalized[x]) * 255, 3) * r.alpha_remapped[x], 255))

\* a row integral that is the grayscale row itself, not its running sum
RowIntegralNoCumsum(r, width) ==
    [tag |-> "array", elems |-> [x \in 1..width |-> Grayscale(r, x)]]

\* grayscale_row.cumsum()
RowIntegral(r, width) ==
    Eval([x \in 1..width |-> Grayscale(r, x)], LAMBDA grayscale_row :
        [tag |-> "array", elems |-> [x \in 1..width |-> SumRange(grayscale_row, 1, x)]])

\* CurveHelper.compute_integral_from_curve_json: every exception is caught
compute_integral_from_curve_json(curve_json, width) ==
    Eval(Subscript(curve_json, "floatCurves"), LAMBDA float_curves :
        IF float_curves.kind = "raise" THEN Return(PyNone)
        ELSE Eval(HasChannels(float_curves.value), LAMBDA has :
            IF has.kind = "raise" THEN Return(PyNone)
            ELSE IF ~has.value THEN Return(PyNone)
            ELSE Eval(Resample(float_curves.value, width), LAMBDA r :
                IF r.kind = "raise" THEN Return(PyNone)
                ELSE Return(RowIntegral(r.value, width)))))

\* an outer product whose every row is v
OuterReplicated(u, v) == [y \in 1..Len(u) |-> v]

\* np.outer(u, v)
Outer(u, v) == [y \in 1..Len(u) |-> [x \in 1..Len(v) |-> u[y] * v[x]]]

\* [value] * width
Repeat(value, width) == List([x \in 1..width |-> value])

\* CurveHelper.compute_integral_from_curve_data: the channel arrays are
\* lists of numbers, zip stops at the shortest of them
compute_integral_from_curve_data(curve_data, width, height) ==
    LET r_curve == Get(curve_data, "r_curve", Repeat(Num(0), width)).elems
        g_curve == Get(curve_data, "g_curve", Repeat(Num(0), width)).elems
        b_curve == Get(curve_data, "b_curve", Repeat(Num(0), width)).elems
        a_curve == Get(curve_data, "a_curve", Repeat(Num(1000), width)).elems
        n == Min2(Min2(Len(r_curve), Len(g_curve)), Min2(Len(b_curve), Len(a_curve)))
        row_values ==
            [x \in 1..n |->
                PyInt(Mul(TruncDiv(r_curve[x].num + g_curve[x].num + b_curve[x].num, 3),
                          a_curve[x].num))]
    IN  Eval([x \in 1..n |-> SumRange(row_values, 1, x)], LAMBDA row_integral :
            Return([ tag |-> "array",
                     elems |-> Outer([y \in 1..height |-> y], row_integral) ]))

(***************************************************************************)
(* Calls                                                                   *)
(*                                                                         *)
(* A behaviour is one call of one operation: the initial state holds the   *)
(* operation and its arguments (pc = "call"), the operation's action       *)
(* computes what it returns or raises (pc = "done").  metadata is the log  *)
(* the metadata-append hook writes.                                        *)
(***************************************************************************)
NoRet == [kind |-> "none", value |-> "none"]

Seeds == 0..MaxSeed

TypeArgs == FloatCurveTypes \cup {"None"}

\* resolution_scale and noise_scale arguments tried
ResolutionScales == {1000, 20, 30, 0, -500, 2000}
NoiseScales == {0, 1000, 500}

RandomFloatCurveCalls ==
    [ min_keys : 0..MaxKeysArg, max_keys : 0..MaxKeysArg,
      float_curve_type : TypeArgs, seed : Seeds ]
    \cup [ min_keys : {2}, max_keys : {100},
           float_curve_type : FloatCurveTypes, seed : Seeds ]

FloatCurveCalls ==
    [ float_curve_type : TypeArgs, resolution_scale : ResolutionScales,
      noise_scale : NoiseScales, seed : Seeds ]

InitSynth ==
    /\ pc = "call"
    /\ \/ op = "generate_random_float_curve" /\ args \in RandomFloatCurveCalls
       \/ op = "generate_float_curve" /\ args \in FloatCurveCalls
    /\ ret = NoRet
    /\ metadata = <<>>
    /\ database = <<>>
    /\ session_state = <<>>

GenerateRandomFloatCurve ==
    /\ pc = "call"
    /\ op = "generate_random_float_curve"
    /\ ret' = generate_random_float_curve(args.min_keys, args.max_keys,
                                          args.float_curve_type, args.seed)
    /\ pc' = "done"
    /\ UNCHANGED <<op, args, metadata, database, session_state>>

GenerateFloatCurve ==
    /\ pc = "call"
    /\ op = "generate_float_curve"
    /\ ret' = generate_float_curve(args.float_curve_type, args.resolution_scale,
                                   args.noise_scale, args.seed)
    /\ pc' = "done"
    /\ UNCHANGED <<op, args, metadata, database, session_state>>

NextSynth == GenerateRandomFloatCurve \/ GenerateFloatCurve

SpecSynth == InitSynth /\ [][NextSynth]_vars

\* what uuid.uuid4() and time.strftime give a call
Uuids == {"uuid-1"}
Timestamps == {"2024-01-01T00:00:00Z"}

\* shape-family names a spec may carry: members in several cases, and
\* strings that name no member
TypeNames ==
    { Str(<<"S", "T", "E", "P">>), Str(<<"s", "t", "e", "p">>), Str(<<"S", "t", "e", "p">>), Str(<<"l", "e", "r", "p">>), Str(<<"e", "u", "l", "e", "r", "_", "s", "p", "i", "r", "a", "l">>),
      Str(<<"w", "a", "v", "y">>), Str(<<" ", "S", "T", "E", "P">>), EmptyStr }

\* a spec that asks for two keys per curve
SmallSpec ==
    ("R_resolution_scale" :> Num(20)) @@ ("G_resolution_scale" :> Num(20))
    @@ ("B_resolution_scale" :> Num(20)) @@ ("A_resolution_scale" :> Num(20))
    @@ ("meta_x_resolution_scale" :> Num(20)) @@ ("meta_y_resolution_scale" :> Num(20))

SpecDicts ==
    {SmallSpec, <<>>}
    \cup {(SpecCurveKeys[i][1] :> name) @@ SmallSpec : i \in 1..6, name \in TypeNames}
    \cup {(SpecCurveKeys[i][1] :> PyNone) @@ SmallSpec : i \in {2, 5}}
    \cup {("R_float_curve_type" :> name) @@ ("R_resolution_scale" :> Num(1000))
            @@ ("R_noise_scale" :> Num(0)) @@ SmallSpec : name \in {Str(<<"S", "T", "E", "P">>), Str(<<"s", "t", "e", "p">>)}}
    \cup {("name" :> Str(<<"s", "u", "n", "s", "e", "t">>)) @@ ("description" :> Str(<<"w", "a", "r", "m">>))
            @@ ("randomize_adjustments" :> Num(r)) @@ ("A_float_curve_type" :> Str(<<"w", "a", "v", "y">>))
            @@ ("B_noise_scale" :> Num(500)) @@ SmallSpec : r \in {0, 100, 500, -500}}
    \cup {("name" :> Str(<<"s", "u", "n", "s", "e", "t">>)) @@ ("meta_x_offset_scale" :> Num(250)) @@ SmallSpec}

\* JSON objects tried on convert_to_UE_output_format beside the assembled
\* records: objects that lack fields and channels or hold further fields
ExportDocuments ==
    { <<>>,
      [ floatCurves |-> [G |-> [keys |-> <<>>], A |-> FloatCurve(<<>>)],
        adjustHue |-> 50, created_at |-> "t", note |-> "x" ],
      [ floatCurves |-> [A |-> FloatCurve(<<>>), B |-> [defaultValue |-> 0],
                         G |-> FloatCurve(<<>>), R |-> [keys |-> <<>>]],
        assetImportData |-> AssetImportData, adjustMaxAlpha |-> 1000 ] }

AssembleCalls ==
    [ json_data : {PyNone}, float_curve_type : TypeArgs, seed : Seeds,
      curve_id : Uuids, now : Timestamps ]
    \cup [ json_data : {Dict(d) : d \in SpecDicts}, float_curve_type : {"None"},
           seed : Seeds, curve_id : Uuids, now : Timestamps ]

InitAssemble ==
    /\ pc = "call"
    /\ \/ op = "generate_color_curve_from_spec" /\ args \in AssembleCalls
       \/ /\ op = "generate_random_color_curve"
          /\ args \in [seed : Seeds, curve_id : Uuids, now : Timestamps]
       \/ op = "convert_to_UE_output_format" /\ args \in [input_json : ExportDocuments]
    /\ ret = NoRet
    /\ metadata = <<>>
    /\ database = <<>>
    /\ session_state = <<>>

\* the whole call: the record is built, then in spec mode the hook is called
\* with the record's curve_id and name, then the record is returned
GenerateColorCurveFromSpec ==
    /\ pc = "call"
    /\ op = "generate_color_curve_from_spec"
    /\ ret' = generate_color_curve_from_spec(args.json_data, args.float_curve_type,
                                             args.seed, args.curve_id, args.now)
    /\ metadata' = MetadataAppended(metadata, ret', args.json_data, args.curve_id)
    /\ pc' = "done"
    /\ UNCHANGED <<op, args, database, session_state>>

GenerateRandomColorCurve ==
    /\ pc = "call"
    /\ op = "generate_random_color_curve"
    /\ ret' = generate_random_color_curve(args.seed, args.curve_id, args.now)
    /\ pc' = "done"
    /\ UNCHANGED <<op, args, metadata, database, session_state>>

ConvertToUEOutputFormat ==
    /\ pc = "call"
    /\ op = "convert_to_UE_output_format"
    /\ ret' = Return(convert_to_UE_output_format(args.input_json))
    /\ pc' = "done"
    /\ UNCHANGED <<op, args, metadata, database, session_state>>

\* the curve_json of the record a call has assembled is exported: the next
\* call of the behaviour is convert_to_UE_output_format on it
ExportAssembled ==
    /\ pc = "done"
    /\ op \in {"generate_color_curve_from_spec", "generate_random_color_curve"}
    /\ ret.kind = "return"
    /\ op' = "convert_to_UE_output_format"
    /\ args' = [input_json |-> ret.value.curve_json]
    /\ ret' = Return(convert_to_UE_output_format(ret.value.curve_json))
    /\ UNCHANGED <<pc, metadata, database, session_state>>

NextAssemble ==
    \/ GenerateColorCurveFromSpec
    \/ GenerateRandomColorCurve
    \/ ConvertToUEOutputFormat
    \/ ExportAssembled

SpecAssemble == InitAssemble /\ [][NextAssemble]_vars

(***************************************************************************)
(* The checkered background                                                *)
(***************************************************************************)
\* ImageDraw.rectangle([x0, y0, x1, y1], fill) on an image, a mapping of the
\* pixels <<x, y>> to colours: both corners lie inside the rectangle, and
\* what lies outside the image is cut off
DrawRectangle(image, x0, y0, x1, y1, fill) ==
    [p \in DOMAIN image |->
        IF x0 <= p[1] /\ p[1] <= x1 /\ y0 <= p[2] /\ p[2] <= y1 THEN fill ELSE image[p]]

\* the fill of the square at <<x, y>>: light gray or white
SquareColor(x, y, square_size) ==
    IF ((x \div square_size) + (y \div square_size)) % 2 = 0
    THEN <<200, 200, 200, 255>> ELSE <<255, 255, 255, 255>>

\* squares drawn from the last origin to the first
RECURSIVE DrawSquaresBackwards(_, _, _, _)
DrawSquaresBackwards(image, origins, square_size, n) ==
    IF n = 0 THEN image
    ELSE LET o == origins[Len(origins) - n + 1]
         IN  DrawRectangle(DrawSquaresBackwards(image, origins, square_size, n - 1),
                           o[1], o[2], o[1] + square_size, o[2] + square_size,
                           SquareColor(o[1], o[2], square_size))

\* the image after the first n passes of the loops, origins being the
\* corners <<x, y>> in the order the loops visit them
RECURSIVE DrawSquares(_, _, _, _)
DrawSquares(image, origins, square_size, n) ==
    IF n = 0 THEN image
    ELSE LET o == origins[n]
         IN  DrawRectangle(DrawSquares(image, origins, square_size, n - 1),
                           o[1], o[2], o[1] + square_size, o[2] + square_size,
                           SquareColor(o[1], o[2], square_size))

\* CurveHelper.create_checkered_background: y runs over
\* range(0, height, square_size) and, inside, x over
\* range(0, width, square_size)
create_checkered_background(width, height, square_size) ==
    LET columns == (width + square_size - 1) \div square_size
        rows == (height + square_size - 1) \div square_size
        origins == [k \in 1..(rows * columns) |->
                      << ((k - 1) % columns) * square_size,
                         ((k - 1) \div columns) * square_size >>]
        background == [p \in (0..(width - 1)) \X (0..(height - 1)) |-> <<255, 255, 255, 0>>]
    IN  DrawSquares(background, origins, square_size, rows * columns)

(***************************************************************************)
(* Plotting of the channels (streamlit_helper.py, enums.py)                *)
(***************************************************************************)
\* the members of InterpMode, each by its value, with the plotting kind
\* to_plotting_kind lists for it
InterpMode ==
    LET RCIM(name) == <<"R", "C", "I", "M", "_">> \o name
    IN  (RCIM(<<"L", "i", "n", "e", "a", "r">>) :> "linear")
        @@ (RCIM(<<"C", "u", "b", "i", "c">>) :> "cubic")
        @@ (RCIM(<<"Q", "u", "a", "d", "r", "a", "t", "i", "c">>) :> "quadratic")
        @@ (RCIM(<<"C", "o", "n", "s", "t", "a", "n", "t">>) :> "constant")
        @@ (RCIM(<<"N", "e", "a", "r", "e", "s", "t">>) :> "nearest")
        @@ (RCIM(<<"S", "l", "i", "n", "e", "a", "r">>) :> "slinear")
        @@ (RCIM(<<"P", "o", "l", "y", "n", "o", "m", "i", "a", "l">>) :> "polynomial")
        @@ (RCIM(<<"B", "a", "r", "y", "c", "e", "n", "t", "r", "i", "c">>) :> "barycentric")
        @@ (RCIM(<<"K", "r", "o", "g", "h">>) :> "krogh")
        @@ (RCIM(<<"P", "c", "h", "i", "p">>) :> "pchip")
        @@ (RCIM(<<"A", "k", "i", "m", "a">>) :> "akima")

\* InterpMode(value): the member with that value; Enum raises ValueError for
\* a value no member has
InterpModeOf(value) ==
    IF value.tag = "str" /\ value.chars \in DOMAIN InterpMode
    THEN Return(value.chars)
    ELSE Raise("ValueError")

\* InterpMode.to_plotting_kind of a member: the table's entry, 'linear' for a
\* key the table lacks
to_plotting_kind(self) ==
    IF self \in DOMAIN InterpMode THEN InterpMode[self] ELSE "linear"

\* plot_curves without a thumbnail, for float curves whose keys hold numbers:
\* the kinds of the lines drawn for the channels R, G, B, A, or the first
\* exception. scipy's interp1d takes the kinds of the orders below, needs
\* more points than the order and raises NotImplementedError for another
\* kind.
plot_curves(curve_data) ==
    LET order == ("linear" :> 1) @@ ("nearest" :> 0) @@ ("slinear" :> 1)
                 @@ ("quadratic" :> 2) @@ ("cubic" :> 3)
        channels == SelectSeq(Channels, LAMBDA c : c \in DOMAIN curve_data.items)
        Line(channel) ==
            LET keys == curve_data.items[channel].items["keys"]
                data == extract_curve_data(keys)
                times == data.value[1]
                \* 0 put in front of and 1 behind the times that lack them
                points == Len(times) + (IF times[1].num > 0 THEN 1 ELSE 0)
                            + (IF times[Len(times)].num < 1000 THEN 1 ELSE 0)
                interp_mode_str ==
                    Get(keys.elems[1], "interpMode",
                        Str(<<"R", "C", "I", "M", "_", "L", "i", "n", "e", "a", "r">>))
                interp_mode == InterpModeOf(interp_mode_str)
                interp_kind == to_plotting_kind(interp_mode.value)
            IN  IF data.kind = "raise" THEN data
                ELSE IF Len(times) = 0 THEN Raise("IndexError")
                ELSE IF interp_mode.kind = "raise" THEN interp_mode
                ELSE IF interp_kind = "constant" THEN Return(interp_kind)
                ELSE IF interp_kind \notin DOMAIN order THEN Raise("NotImplementedError")
                ELSE IF points <= order[interp_kind] THEN Raise("ValueError")
                ELSE Return(interp_kind)
    IN  Collect([i \in 1..Len(channels) |-> Line(channels[i])])

(***************************************************************************)
(* Calls of the rasterizer, the integral and the alpha remap               *)
(***************************************************************************)
\* process_alpha_channel is tried on rows of up to MaxSamples samples
MaxSamples == 3

\* create_checkered_background is tried on images of up to MaxSide pixels a
\* side
MaxSide == 18

\* a keyframe, a channel's curve and a record as the JSON holds them
Key(time, value) == Dict(("time" :> Num(time)) @@ ("value" :> Num(value)))
Curve(keys) == Dict(("keys" :> List(keys)) @@ ("defaultValue" :> Num(0)))
Record(float_curves) ==
    Dict(("floatCurves" :> float_curves) @@ ("created_at" :> Str(<<"t">>)))

Ramp == Curve(<<Key(0, 0), Key(1000, 1000)>>)
Bump == Curve(<<Key(0, 200), Key(500, 900), Key(1000, 400)>>)
Inner == Curve(<<Key(250, 100), Key(600, 800), Key(600, 300), Key(750, 1000)>>)

\* flat values tried for a channel
FlatValues == {0, 333, 400, 500, 999, 1000}

GoodCurves ==
    {Ramp, Bump, Inner}
    \cup {Curve(<<Key(700, v)>>) : v \in FlatValues}
    \cup {Curve(<<Key(100, v), Key(900, v)>>) : v \in FlatValues}

FourChannels(r, g, b, a) ==
    Dict(("R" :> r) @@ ("G" :> g) @@ ("B" :> b) @@ ("A" :> a))

\* a curve that starts below zero
Dip == Curve(<<Key(0, -500), Key(1000, 200)>>)

GoodRecords ==
    {Record(FourChannels(r, Ramp, Bump, a)) : r \in {Ramp, Inner, Curve(<<Key(700, 400)>>)},
                                             a \in GoodCurves}
    \cup {Record(FourChannels(Dip, Dip, Bump, a)) :
            a \in {Ramp, Dip, Curve(<<Key(700, 400)>>), Curve(<<Key(700, -400)>>)}}

\* float_curves without the channels of a non-empty set
MissingChannels ==
    {Record(Dict([c \in {"R", "G", "B", "A"} \ missing |-> Ramp])) :
        missing \in (SUBSET {"R", "G", "B", "A"}) \ {{}}}

\* values in the place of a channel's curve that are no well-formed curve
BadCurves ==
    { PyNone, Num(500), Str(<<"k">>), List(<<>>), Dict(<<>>),
      Dict("keys" :> PyNone), Dict("keys" :> Num(3)), Dict("keys" :> List(<<>>)),
      Dict("keys" :> Str(<<>>)), Dict("keys" :> Str(<<"a", "b">>)),
      Dict("keys" :> Str(<<"a">>)), Dict("keys" :> Dict(<<>>)),
      Dict("keys" :> Dict("0" :> Key(0, 500))),
      Curve(<<PyNone>>), Curve(<<PyNone, Key(1000, 500)>>),
      Curve(<<Dict("time" :> Num(0))>>),
      Curve(<<Dict("time" :> Num(0)), Key(1000, 500)>>),
      Curve(<<Dict("value" :> Num(500)), Key(1000, 500)>>),
      Curve(<<Dict(("time" :> Num(0)) @@ ("value" :> PyNone))>>),
      Curve(<<Dict(("time" :> Num(0)) @@ ("value" :> Str(<<"h", "i">>)))>>),
      Curve(<<Dict(("time" :> Num(0)) @@ ("value" :> PyNone)), Key(1000, 500)>>),
      Curve(<<Dict(("time" :> Num(0)) @@ ("value" :> Str(<<"h", "i">>))), Key(1000, 500)>>),
      Curve(<<Dict(("time" :> PyNone) @@ ("value" :> Num(500))), Key(1000, 500)>>),
      Curve(<<Dict(("time" :> Str(<<"0">>)) @@ ("value" :> Num(500))), Key(1000, 500)>>) }

MalformedRecords ==
    { PyNone, Num(1000), Str(<<"{", "}">>), List(<<>>), Dict(<<>>),
      Dict("curve_id" :> Str(<<"x">>)),
      Record(PyNone), Record(Num(0)), Record(Str(<<"R", "G", "B", "A">>)),
      Record(Str(<<"R", "G">>)),
      Record(List(<<Str(<<"R">>), Str(<<"G">>), Str(<<"B">>), Str(<<"A">>)>>)),
      Record(List(<<>>)) }
    \cup {Record(Dict((c :> bad) @@ FourChannels(Ramp, Ramp, Bump, Ramp).items)) :
            c \in {"R", "G", "B", "A"}, bad \in BadCurves}

CurveRecords == GoodRecords \cup MissingChannels \cup MalformedRecords

\* a keyframe whose value is any JSON value
KeyOf(time, value) == Dict(("time" :> Num(time)) @@ ("value" :> value))

\* keys lists tried on extract_curve_data, of the key values 0, 0.4, -0.001,
\* 5e-7, -9.99e-7, 1e-6, 2.5e-6 and 0.4000005
KeyLists ==
    LET ExtractValues ==
            { Num(0), Num(400), Num(-1), Fine(0, 500), Fine(0, -999), Fine(0, 1000),
              Fine(0, 2500), Fine(400, 500) }
        ExtractTimes == {0, 700, 1000}
    IN  {List(<<KeyOf(t, v)>>) : t \in ExtractTimes, v \in ExtractValues}
        \cup {List(<<KeyOf(0, v), KeyOf(1000, w)>>) : v, w \in ExtractValues}
        \cup {List(<<KeyOf(0, v), KeyOf(500, Num(400)), KeyOf(500, v)>>) :
                v \in ExtractValues}
        \cup { List(<<>>), List(<<PyNone>>), List(<<Dict("time" :> Num(0))>>),
               List(<<Dict("value" :> Num(400))>>), Str(<<"a">>), PyNone }

\* compute_integral_from_curve_data is tried on images of up to MaxHeight
\* rows
MaxHeight == 3

\* the calls of compute_integral_from_curve_data: channel arrays of width
\* samples (bytes of the colours, opacities of alpha), one array a sample
\* short, arrays left out
IntegralImageCalls ==
    LET ByteRows(width) ==
            {List(row) : row \in [1..width -> {Num(0), Num(90000), Num(255000)}]}
        CurveData(width) ==
            {Dict(<<>>)}
            \cup {Dict("r_curve" :> r) : r \in ByteRows(width)}
            \cup {Dict(("r_curve" :> r) @@ ("g_curve" :> Repeat(Num(30000), width))
                        @@ ("b_curve" :> Repeat(Num(255000), width))
                        @@ ("a_curve" :> Repeat(Num(a), width))) :
                    r \in ByteRows(width), a \in {0, 500}}
            \cup {Dict(("r_curve" :> Repeat(Num(90000), width))
                        @@ ("g_curve" :> Repeat(Num(90000), width - 1)))}
    IN  UNION {[curve_data : CurveData(width), width : {width}, height : 1..MaxHeight] :
                 width \in 1..MaxSamples}

\* the float curves tried on plot_curves: every channel with the same keys,
\* whose first key names an interpolation mode (a member's value, another
\* string, a number) or names none
PlottedCurves ==
    LET Named(key, mode) == Dict(("interpMode" :> mode) @@ key.items)
        Modes == {Str(value) : value \in DOMAIN InterpMode}
                 \cup { Str(<<"l", "i", "n", "e", "a", "r">>),
                        Str(<<"R", "C", "I", "M", "_", "B", "e", "z", "i", "e", "r">>),
                        Str(<<"R", "C", "I", "M", "_", "l", "i", "n", "e", "a", "r">>),
                        Str(<<>>), Num(0), PyNone }
        Rest == { <<>>, <<Key(1000, 1000)>>, <<Key(500, 900), Key(1000, 400)>>,
                  <<Key(400, 900), Key(700, 400), Key(900, 400)>> }
        KeysTried == {<<Named(Key(0, 200), mode)>> \o rest : mode \in Modes, rest \in Rest}
                     \cup {<<Key(100, 200)>> \o rest : rest \in Rest}
    IN  {FourChannels(Curve(keys), Curve(keys), Curve(keys), Curve(keys)) :
            keys \in KeysTried}
        \cup {Dict(<<>>), Dict("A" :> Ramp), Dict("R" :> Curve(<<>>))}

AlphaSamples == {0, 333, 400, 500, 1000}

\* rows of samples, and rows of the samples 200 and 200.001, which differ by
\* less than the tolerance of np.allclose
AlphaRows ==
    UNION {[1..n -> AlphaSamples] : n \in 1..MaxSamples}
    \cup {<<200000, 200001>>, <<200001, 200000, 200000>>}

InitRaster ==
    /\ pc = "call"
    /\ \/ /\ op = "generate_thumbnail_from_curve"
          /\ args \in [curve_json : CurveRecords, transparent_background : BOOLEAN]
       \/ /\ op = "compute_integral_from_curve_json"
          /\ args \in [curve_json : CurveRecords, width : {TextureWidth}]
       \/ /\ op = "process_alpha_channel"
          /\ args \in [alpha_normalized : AlphaRows]
       \/ /\ op = "extract_curve_data"
          /\ args \in [curve : KeyLists]
       \/ /\ op = "compute_integral_from_curve_data"
          /\ args \in IntegralImageCalls
       \/ /\ op = "plot_curves"
          /\ args \in [curve_data : PlottedCurves]
       \/ /\ op = "create_checkered_background"
          /\ args \in [width : 1..MaxSide, height : 1..MaxSide, square_size : {8}]
    /\ ret = NoRet
    /\ metadata = <<>>
    /\ database = <<>>
    /\ session_state = <<>>

GenerateThumbnailFromCurve ==
    /\ pc = "call"
    /\ op = "generate_thumbnail_from_curve"
    /\ ret' = generate_thumbnail_from_curve(args.curve_json, args.transparent_background)
    /\ pc' = "done"
    /\ UNCHANGED <<op, args, metadata, database, session_state>>

ComputeIntegralFromCurveJson ==
    /\ pc = "call"
    /\ op = "compute_integral_from_curve_json"
    /\ ret' = compute_integral_from_curve_json(args.curve_json, args.width)
    /\ pc' = "done"
    /\ UNCHANGED <<op, args, metadata, database, session_state>>

ProcessAlphaChannel ==
    /\ pc = "call"
    /\ op = "process_alpha_channel"
    /\ ret' = Return(process_alpha_channel(args.alpha_normalized))
    /\ pc' = "done"
    /\ UNCHANGED <<op, args, metadata, database, session_state>>

ExtractCurveData ==
    /\ pc = "call"
    /\ op = "extract_curve_data"
    /\ ret' = extract_curve_data(args.curve)
    /\ pc' = "done"
    /\ UNCHANGED <<op, args, metadata, database, session_state>>

ComputeIntegralFromCurveData ==
    /\ pc = "call"
    /\ op = "compute_integral_from_curve_data"
    /\ ret' = compute_integral_from_curve_data(args.curve_data, args.width, args.height)
    /\ pc' = "done"
    /\ UNCHANGED <<op, args, metadata, database, session_state>>

PlotCurves ==
    /\ pc = "call"
    /\ op = "plot_curves"
    /\ ret' = plot_curves(args.curve_data)
    /\ pc' = "done"
    /\ UNCHANGED <<op, args, metadata, database, session_state>>

CreateCheckeredBackground ==
    /\ pc = "call"
    /\ op = "create_checkered_background"
    /\ ret' = Return(create_checkered_background(args.width, args.height,
                                                 args.square_size))
    /\ pc' = "done"
    /\ UNCHANGED <<op, args, metadata, database, session_state>>

NextRaster ==
    \/ CreateCheckeredBackground
    \/ PlotCurves
    \/ ComputeIntegralFromCurveData
    \/ GenerateThumbnailFromCurve
    \/ ComputeIntegralFromCurveJson
    \/ ProcessAlphaChannel
    \/ ExtractCurveData

SpecRaster == InitRaster /\ [][NextRaster]_vars

(***************************************************************************)
(* The collaborators: update_field, fetch_json, read_page                  *)
(***************************************************************************)
\* The database is [rows, column_action_log, queries]: rows maps the uuid of
\* a record to the value of its field, column_action_log is the audit log,
\* queries lists the statements handed to the database, in order.  A query
\* whose name is in faults fails before it has any effect.

\* execute_query_sl of the SELECT of the field: [result, database], result
\* the list of the values found
execute_query_sl(db, uuid, faults) ==
    [ result |-> IF "SELECT" \in faults THEN Raise("OperationalError")
                 ELSE IF uuid \in DOMAIN db.rows THEN Return(<<db.rows[uuid]>>)
                 ELSE Return(<<>>),
      database |-> [db EXCEPT !.queries = Append(@, "SELECT")] ]

\* execute_non_select_query of an UPDATE of the field or of an INSERT into
\* column_action_log: [result, database]; the statement is committed before
\* the call returns
execute_non_select_query(db, query, faults) ==
    LET asked == [db EXCEPT !.queries = Append(@, query.statement)]
    IN  IF query.statement \in faults
        THEN [result |-> Raise("OperationalError"), database |-> asked]
        ELSE IF query.statement = "UPDATE"
        THEN [ result |-> Return(IF query.uuid \in DOMAIN db.rows THEN 1 ELSE 0),
               database |->
                 [asked EXCEPT !.rows =
                    [u \in DOMAIN db.rows |->
                        IF u = query.uuid THEN query.new_value ELSE db.rows[u]]] ]
        ELSE [ result |-> Return(1),
               database |-> [asked EXCEPT !.column_action_log = Append(@, query.row)] ]

\* update_field: [response, database]
update_field(db, uuid, field_name, new_value, faults) ==
    LET read == execute_query_sl(db, uuid, faults)
        current_value ==
            IF read.result.kind = "raise" THEN read.result
            ELSE IF Len(read.result.value) = 0 THEN Raise("IndexError")
            ELSE Return(read.result.value[1])
        failed(message) == [status |-> "error", message |-> message, data |-> <<>>]
        updated == execute_non_select_query(
                      read.database,
                      [statement |-> "UPDATE", uuid |-> uuid, new_value |-> new_value],
                      faults)
        logged == execute_non_select_query(
                      updated.database,
                      [ statement |-> "INSERT",
                        row |-> [ uuid |-> uuid, action_type |-> "update",
                                  column_name |-> field_name,
                                  old_value |-> current_value.value,
                                  new_value |-> new_value, created_by |-> "admin" ] ],
                      faults)
    IN  IF current_value.kind = "raise"
        THEN [response |-> failed("Error fetching current value"), database |-> read.database]
        ELSE IF updated.result.kind = "raise"
        THEN [ response |-> failed("Error updating in the database or logging action"),
               database |-> updated.database ]
        ELSE IF logged.result.kind = "raise"
        THEN [ response |-> failed("Error updating in the database or logging action"),
               database |-> logged.database ]
        ELSE [ response |->
                 [ status |-> "success", message |-> "Successfully updated",
                   data |-> [ uuid |-> uuid, field_name |-> field_name,
                              old_value |-> current_value.value,
                              new_value |-> new_value ] ],
               database |-> logged.database ]

\* response.json() of requests: the value of the body, or JSONDecodeError,
\* which is a RequestException
ResponseJson(body) ==
    CASE body = <<"n", "u", "l", "l">> -> Return(PyNone)
      [] body = <<"{", "}">> -> Return(Dict(<<>>))
      [] body = <<"[", "]">> -> Return(List(<<>>))
      [] body = <<"1">> -> Return(Num(1000))
      [] body = <<"{", "\"", "A", "\"", ":", "1", "}">> -> Return(Dict("A" :> Num(1000)))
      [] OTHER -> Raise("JSONDecodeError")

\* fetch_json, for the reply the request gets: a ConnectionError or a
\* response with a status code and a body
fetch_json(reply) ==
    LET failed == "Failed to fetch JSON data"
    IN  IF reply.kind = "ConnectionError"
        THEN [status |-> "error", message |-> failed, data |-> PyNone]
        ELSE IF reply.status_code >= 400
        THEN [status |-> "error", message |-> failed, data |-> PyNone]
        ELSE Eval(ResponseJson(reply.body), LAMBDA json :
                IF json.kind = "raise"
                THEN [status |-> "success", message |-> failed, data |-> PyNone]
                ELSE [ status |-> "success", message |-> "Successfully fetched JSON data.",
                       data |-> json.value ])

\* one run of read_page: the widget gives records_per_page, count_records
\* gives total_records, clicked is the button clicked in this run, if any;
\* [session_state, shown], shown being the page written and the limit and the
\* offset of fetch_records
read_page(state, records_per_page, total_records, clicked) ==
    LET total_pages == (total_records \div records_per_page)
                       + (IF total_records % records_per_page > 0 THEN 1 ELSE 0)
        first == IF "page" \in DOMAIN state THEN state.page ELSE 1
        back == IF clicked = "previous" /\ first > 1 THEN first - 1 ELSE first
        page == IF clicked = "next" /\ back < total_pages THEN back + 1 ELSE back
    IN  [ session_state |-> [page |-> page],
          shown |-> [ page |-> page, total_pages |-> total_pages,
                      total_records |-> total_records, limit |-> records_per_page,
                      offset |-> (page - 1) * records_per_page ] ]

(***************************************************************************)
(* Calls of the collaborators                                              *)
(***************************************************************************)
\* read_page is run on tables of up to MaxRecords records, with up to
\* MaxPerPage records per page
MaxRecords == 6
MaxPerPage == 3

InitApp ==
    /\ pc = "call"
    /\ ret = NoRet
    /\ metadata = <<>>
    /\ session_state = <<>>
    /\ \/ /\ op = "update_field"
          /\ args \in [ uuid : {"u1", "u2"}, table_name : {"Color_Curves"},
                        field_name : {"name"}, new_value : {"dusk", "warm, dusk"},
                        faults : SUBSET {"SELECT", "UPDATE", "INSERT"} ]
          /\ database \in [ rows : {"u1" :> "warm, dusk", ("u1" :> "warm, dusk") @@ ("u2" :> "sky")},
                            column_action_log : {<<>>}, queries : {<<>>} ]
       \/ /\ op = "fetch_json"
          /\ args \in [ reply :
                          {[kind |-> "ConnectionError"]}
                          \cup [ kind : {"response"}, status_code : {200, 204, 404, 500},
                                 body : { <<"n", "u", "l", "l">>, <<"{", "}">>, <<"[", "]">>, <<"1">>,
                                          <<"{", "\"", "A", "\"", ":", "1", "}">>, <<>>,
                                          <<"<", "h", "t", "m", "l", ">">>, <<"{">> } ] ]
          /\ database = <<>>
       \/ /\ op = "read_page"
          /\ args = [table_name |-> "Color_Curves"]
          /\ database = <<>>

UpdateField ==
    /\ pc = "call"
    /\ op = "update_field"
    /\ \E done \in {update_field(database, args.uuid, args.field_name, args.new_value,
                                 args.faults)} :
          /\ ret' = Return(done.response)
          /\ database' = done.database
    /\ pc' = "done"
    /\ UNCHANGED <<op, args, metadata, session_state>>

FetchJson ==
    /\ pc = "call"
    /\ op = "fetch_json"
    /\ ret' = Return(fetch_json(args.reply))
    /\ pc' = "done"
    /\ UNCHANGED <<op, args, metadata, database, session_state>>

\* a run of the page script: the first one, in which no button can have
\* been clicked, and every rerun
ReadPage ==
    /\ op = "read_page"
    /\ \E records_per_page \in 1..MaxPerPage, total_records \in 0..MaxRecords,
          clicked \in IF pc = "call" THEN {"none"} ELSE {"none", "previous", "next"} :
          \E run \in {read_page(session_state, records_per_page, total_records, clicked)} :
              /\ session_state' = run.session_state
              /\ ret' = Return(run.shown)
    /\ pc' = "done"
    /\ UNCHANGED <<op, args, metadata, database>>

NextApp == UpdateField \/ FetchJson \/ ReadPage

SpecApp == InitApp /\ [][NextApp]_vars

(***************************************************************************)
(* Properties of the keyframe synthesizers, checked under SpecSynth        *)
(***************************************************************************)
Returned(o) == pc = "done" /\ op = o /\ ret.kind = "return"

Synthesized == Returned("generate_random_float_curve") \/ Returned("generate_float_curve")

\* the keys of the returned curve
RetKeys == ret.value.keys

\* C4: for every shape family and every min_keys <= max_keys,
\* generate_random_float_curve returns a curve whose key count lies in
\* [min_keys, max_keys], whose times lie in [0, 1] and never decrease in
\* emission order, and whose values lie in [0, 1] after noise and clamp.
C4_RandomCurveInBounds ==
    (pc = "done" /\ op = "generate_random_float_curve"
        /\ args.min_keys <= args.max_keys) =>
        /\ ret.kind = "return"
        /\ Len(RetKeys) >= args.min_keys
        /\ Len(RetKeys) <= args.max_keys
        /\ \A i \in 1..Len(RetKeys) :
              /\ RetKeys[i].time >= 0 /\ RetKeys[i].time <= 1000
              /\ RetKeys[i].value >= 0 /\ RetKeys[i].value <= 1000
        /\ \A i \in 1..(Len(RetKeys) - 1) : RetKeys[i].time <= RetKeys[i + 1].time

\* a random curve of several keys, drawn out of order, one of whose values
\* the clamp has brought back to 0
C4_Witness ==
    /\ Returned("generate_random_float_curve")
    /\ args.min_keys < args.max_keys
    /\ Len(RetKeys) >= 3
    /\ UnsortedTimes(args.seed, 1, Len(RetKeys))
          # SortedTimes(args.seed, 1, Len(RetKeys))
    /\ args.float_curve_type = "QUADRATIC"
    /\ \E i \in 1..Len(RetKeys) :
          /\ RetKeys[i].value = 0
          /\ ShapeValue("QUADRATIC", RetKeys[i].time) > 0

\* the calls C5 is about
C5_Case ==
    /\ pc = "done" /\ op = "generate_float_curve"
    /\ args.resolution_scale = 1000 /\ args.noise_scale = 0
    /\ args.float_curve_type \in FloatCurveTypes \ {"RANDOM"}

\* C5: generate_float_curve with resolution_scale = 1.0 and noise_scale = 0.0
\* for a family other than RANDOM returns exactly
\* min(100, max(2, default_key_count[family])) keys, each value being the
\* family's shape formula at the key's time, with no noise and no clamp
\* (for STEP the formula is the comparison of the time with a threshold in
\* [0.3, 0.7]).
C5_ScaledDefaultsExact ==
    C5_Case =>
        /\ ret.kind = "return"
        /\ Len(RetKeys)
              = Min2(100, Max2(2, default_key_counts[args.float_curve_type]))
        /\ \A i \in 1..Len(RetKeys) :
              IF args.float_curve_type = "STEP"
              THEN \E step_position \in 300..700 :
                      RetKeys[i].value = StepValue(RetKeys[i].time, step_position)
              ELSE RetKeys[i].value
                      = ShapeValue(args.float_curve_type, RetKeys[i].time)

\* a 100-key curve of a formula family whose values are not all alike
C5_Witness ==
    /\ C5_Case
    /\ ret.kind = "return"
    /\ args.float_curve_type = "SINUSOIDAL"
    /\ Len(RetKeys) = 100
    /\ RetKeys[1].value < RetKeys[100].value

\* C6: for a STEP curve of either synthesizer one threshold in [0.3, 0.7]
\* is drawn for the whole curve and every key is compared against it: the
\* keys below the threshold are low, the others high.
C6_OneThresholdPerCurve ==
    (Synthesized /\ args.float_curve_type = "STEP") =>
        \E step_position \in 300..700 :
            \A i \in 1..Len(RetKeys) :
                (RetKeys[i].value >= 500) <=> (RetKeys[i].time >= step_position)

\* the (interpMode, tangentMode, tangentWeightMode) rows of the
\* specification's metadata table
MetadataTable(type) ==
    CASE type \in {"PARABOLIC", "QUADRATIC", "CUBIC", "BELL"} ->
            <<"RCIM_Cubic", "RCTM_Auto", "RCTWM_WeightedBoth">>
      [] type \in {"SINUSOIDAL", "CYCLE"} ->
            <<"RCIM_Cubic", "RCTM_Auto", "RCTWM_WeightedArrive">>
      [] type = "EXPONENTIAL" ->
            <<"RCIM_Linear", "RCTM_Break", "RCTWM_WeightedLeave">>
      [] type = "LOGARITHMIC" ->
            <<"RCIM_Linear", "RCTM_Break", "RCTWM_WeightedArrive">>
      [] type = "STEP" ->
            <<"RCIM_Constant", "RCTM_Break", "RCTWM_WeightedNone">>
      [] type = "HYPERBOLIC" ->
            <<"RCIM_Cubic", "RCTM_Auto", "RCTWM_WeightedBoth">>
      [] type \in {"LERP", "RANDOM"} ->
            <<"RCIM_Linear", "RCTM_Break", "RCTWM_WeightedNone">>
      [] type \in {"DRAGON", "RAINBOW", "EULER_SPIRAL", "FIBONACCI_WEIGHTED"} ->
            <<"RCIM_Cubic", "RCTM_User", "RCTWM_WeightedBoth">>

KeyModes(key) == <<key.interpMode, key.tangentMode, key.tangentWeightMode>>
BranchModes(b) == <<b.interp_mode, b.tangent_mode, b.tangent_weight_mode>>

\* C8: every key emitted by generate_random_float_curve and by
\* generate_float_curve for a family carries the (interpMode, tangentMode,
\* tangentWeightMode) triple of the family's row of the metadata table, and
\* the two synthesizers use the same triple for every family.
C8_ModesMatchTable ==
    /\ (Synthesized /\ args.float_curve_type \in FloatCurveTypes) =>
          \A i \in 1..Len(RetKeys) :
              KeyModes(RetKeys[i]) = MetadataTable(args.float_curve_type)
    /\ \A type \in FloatCurveTypes :
          BranchModes(RandomCurveBranch(type)) = BranchModes(ScaledCurveBranch(type))

\* a scaled curve of a family whose row differs from the values the loop
\* variables start from
C8_Witness ==
    /\ Returned("generate_float_curve")
    /\ args.float_curve_type = "EXPONENTIAL"
    /\ Len(RetKeys) >= 2
    /\ KeyModes(RetKeys[2]) = <<"RCIM_Linear", "RCTM_Break", "RCTWM_WeightedLeave">>

\* every key's two tangent weights lie in [lo, hi]
WeightsWithin(lo, hi) ==
    \A i \in 1..Len(RetKeys) :
        /\ RetKeys[i].arriveTangentWeight >= lo /\ RetKeys[i].arriveTangentWeight <= hi
        /\ RetKeys[i].leaveTangentWeight >= lo /\ RetKeys[i].leaveTangentWeight <= hi

\* C9 as stated: for Parabolic, Quadratic, Cubic and Bell every key's
\* arriveTangentWeight and leaveTangentWeight lies in [0.2, 0.6].
C9_WeightsInTableRange ==
    (Synthesized /\ args.float_curve_type \in {"PARABOLIC", "QUADRATIC", "CUBIC", "BELL"})
        => WeightsWithin(200, 600)

\* C9, amended: for Parabolic, Quadratic and Bell every key's two tangent
\* weights lie in [0.2, 0.6]; for Cubic they lie in [0.3, 0.7].
C9_WeightsInCodeRange ==
    /\ (Synthesized /\ args.float_curve_type \in {"PARABOLIC", "QUADRATIC", "BELL"})
          => WeightsWithin(200, 600)
    /\ (Synthesized /\ args.float_curve_type = "CUBIC") => WeightsWithin(300, 700)

\* a Cubic curve one of whose weights is above 0.6
C9_Witness ==
    /\ Synthesized
    /\ args.float_curve_type = "CUBIC"
    /\ \E i \in 1..Len(RetKeys) : RetKeys[i].arriveTangentWeight > 600

(***************************************************************************)
(* Properties of the record assembler, checked under SpecAssemble          *)
(***************************************************************************)
\* a call of the assembler with a spec has finished
SpecModeDone ==
    pc = "done" /\ op = "generate_color_curve_from_spec" /\ args.json_data.tag = "dict"

\* the i-th curve of the returned spec-mode record: R, G, B, A, x, y
SpecCurve(i) ==
    IF i <= 4 THEN ret.value.curve_json.floatCurves[Channels[i]]
    ELSE IF i = 5 THEN ret.value.curve_json.metaCurves.x_offset_curve
    ELSE ret.value.curve_json.metaCurves.y_offset_curve

\* the spec's shape-family key of curve i is missing
TypeKeyMissing(i) == SpecCurveKeys[i][1] \notin DOMAIN args.json_data.items

\* the spec's shape-family key of curve i holds a string
TypeKeyIsName(i) ==
    /\ ~TypeKeyMissing(i)
    /\ args.json_data.items[SpecCurveKeys[i][1]].tag = "str"

\* that string names no member of FloatCurveType, whatever its case
NamesNoMember(i) ==
    /\ TypeKeyIsName(i)
    /\ \A m \in FloatCurveTypes :
          MemberName[m] # Upper(args.json_data.items[SpecCurveKeys[i][1]].chars)

\* the curve was synthesized as a Parabolic curve: every key has the
\* Parabolic modes and tangent ranges and, where the spec asks for no noise,
\* the Parabolic value
IsParabolic(i) ==
    \A k \in 1..Len(SpecCurve(i).keys) :
        LET key == SpecCurve(i).keys[k]
        IN  /\ KeyModes(key) = <<"RCIM_Cubic", "RCTM_Auto", "RCTWM_WeightedBoth">>
            /\ key.arriveTangent >= -200 /\ key.arriveTangent <= 200
            /\ key.arriveTangentWeight >= 200 /\ key.arriveTangentWeight <= 600
            /\ Get(args.json_data, SpecCurveKeys[i][3], Num(0)).num = 0
                  => key.value = Mul(key.time - 500, key.time - 500)

\* C3: in generate_color_curve_from_spec with a spec, for each of the four
\* channel type keys and the two meta offset curve type keys, a missing key
\* or a name that is no FloatCurveType member (case-insensitively) resolves
\* to PARABOLIC, and the assembly completes and returns a record.
C3_UnknownFamilyFallsBack ==
    (SpecModeDone /\ \A i \in 1..6 : TypeKeyMissing(i) \/ TypeKeyIsName(i)) =>
        /\ ret.kind = "return"
        /\ \A i \in 1..6 : (TypeKeyMissing(i) \/ NamesNoMember(i)) => IsParabolic(i)

\* a spec whose y offset curve type is a non-empty name of no member, beside
\* missing keys, has been assembled
C3_Witness ==
    /\ SpecModeDone
    /\ NamesNoMember(6)
    /\ args.json_data.items["meta_y_offset_curve_type"].chars # <<>>
    /\ TypeKeyMissing(1)
    /\ ret.kind = "return"
    /\ Len(SpecCurve(6).keys) >= 2
    /\ IsParabolic(6)

\* C7: a record assembled in spec mode with R_float_curve_type = STEP,
\* resolution_scale = 1.0 and noise_scale = 0.0 has a red channel whose key
\* values, read in time order, are a run of 0s followed by a run of 1s: no
\* key of value 1 comes before a key of value 0.
C7_RedStepTwoLevel ==
    (/\ SpecModeDone
     /\ TypeKeyIsName(1)
     /\ Upper(args.json_data.items["R_float_curve_type"].chars) = <<"S", "T", "E", "P">>
     /\ Get(args.json_data, "R_resolution_scale", Num(1000)).num = 1000
     /\ Get(args.json_data, "R_noise_scale", Num(0)).num = 0
     /\ ret.kind = "return") =>
        /\ \A k \in 1..Len(SpecCurve(1).keys) : SpecCurve(1).keys[k].value \in {0, 1000}
        /\ \A j, k \in 1..Len(SpecCurve(1).keys) :
              j < k => SpecCurve(1).keys[j].value <= SpecCurve(1).keys[k].value

(***************************************************************************)
(* Properties of the rasterizer, the integral and the alpha remap, checked *)
(* under SpecRaster                                                        *)
(***************************************************************************)
RasterDone == pc = "done" /\ op = "generate_thumbnail_from_curve"
IntegralDone == pc = "done" /\ op = "compute_integral_from_curve_json"

\* the record is a mapping whose floatCurves is a mapping
HasFloatCurves ==
    /\ args.curve_json.tag = "dict"
    /\ "floatCurves" \in DOMAIN args.curve_json.items
    /\ args.curve_json.items["floatCurves"].tag = "dict"

\* the channels the record's floatCurves lacks
LackingChannels ==
    {"R", "G", "B", "A"} \ DOMAIN args.curve_json.items["floatCurves"].items

\* the call gave "no result": (None, None) of the rasterizer, None of the
\* integral
NoResult ==
    IF op = "generate_thumbnail_from_curve" THEN ret = NoThumbnail ELSE ret = Return(PyNone)

\* C1: for every record whose floatCurves mapping lacks at least one of R,
\* G, B, A, generate_thumbnail_from_curve returns (None, None) and
\* compute_integral_from_curve_json returns None.
C1_MissingChannelNoResult ==
    ((RasterDone \/ IntegralDone) /\ HasFloatCurves /\ LackingChannels # {}) => NoResult

\* the rasterizer has answered a record that lacks only the B channel
C1_Witness ==
    /\ RasterDone
    /\ HasFloatCurves
    /\ LackingChannels = {"B"}
    /\ ret.kind = "return"
    /\ ret.value.image = PyNone
    /\ ret.value.gradient_info = PyNone

\* C2: for every malformed input (a record that is no mapping or is None,
\* that lacks floatCurves, a channel without keys, an empty keys list, a key
\* without time or value, wrongly typed values) both operations give "no
\* result" and let no exception escape.
C2_MalformedNoResultNoRaise ==
    ((RasterDone \/ IntegralDone) /\ args.curve_json \in MalformedRecords) =>
        /\ ret.kind = "return"
        /\ NoResult

\* every sample of the row handed to process_alpha_channel is the same
FlatRow ==
    /\ pc = "done" /\ op = "process_alpha_channel"
    /\ \A i \in 1..Len(args.alpha_normalized) :
          args.alpha_normalized[i] = args.alpha_normalized[1]

\* C10 as stated: for all-equal samples v, every element of the row
\* process_alpha_channel returns is round(v * 255).
C10_FlatAlphaRounded ==
    FlatRow =>
        \A i \in 1..Len(ret.value) : ret.value[i] = Round(args.alpha_normalized[1] * 255)

\* C10, amended: for all-equal samples v, every element of the row
\* process_alpha_channel returns is v * 255 with its fraction cut off.
C10_FlatAlphaTruncated ==
    FlatRow =>
        /\ Len(ret.value) = Len(args.alpha_normalized)
        /\ \A i \in 1..Len(ret.value) :
              /\ ret.value[i] * 1000 <= args.alpha_normalized[1] * 255
              /\ args.alpha_normalized[1] * 255 < (ret.value[i] + 1) * 1000

\* a flat row of several samples 0.333 has come back as 84s, 0.333 * 255
\* being 84.915
C10_Witness ==
    /\ FlatRow
    /\ Len(args.alpha_normalized) >= 2
    /\ args.alpha_normalized[1] = 333
    /\ \A i \in 1..Len(ret.value) : ret.value[i] = 84

\* the row handed to process_alpha_channel has samples that differ
NonFlatRow ==
    /\ pc = "done" /\ op = "process_alpha_channel"
    /\ \E i \in 1..Len(args.alpha_normalized) :
          args.alpha_normalized[i] # args.alpha_normalized[1]

\* process_alpha_channel has run on samples that np.allclose finds not all
\* close to the first one
NotAllClose ==
    pc = "done" /\ op = "process_alpha_channel" /\ ~AllClose(args.alpha_normalized)

\* the rasterizer has drawn an image
ImageDrawn == RasterDone /\ ret.kind = "return" /\ ret.value.image.tag = "image"

\* the resampled rows of the record the call was given
ArgSamples == Resample(args.curve_json.items["floatCurves"], TextureWidth).value

\* the whole number byte is a nearest one to n / d, d > 0
Nearest(byte, n, d) == 2 * Abs(n - byte * d) <= d

\* the whole number byte is n / d with its fraction cut off, n >= 0, d > 0
CutOff(byte, n, d) == byte * d <= n /\ n < (byte + 1) * d

\* the R, G and B bytes of every column of the image are How(byte, n, d) of
\* clamp(sample * 255, 0, 255)
PixelBytes(How(_, _, _)) ==
    Eval(ArgSamples, LAMBDA r :
        \A x \in 1..TextureWidth :
            /\ How(ret.value.image.rgba[x][1],
                   clamp(r.red_normalized[x] * 255, 0, 255000), 1000)
            /\ How(ret.value.image.rgba[x][2],
                   clamp(r.green_normalized[x] * 255, 0, 255000), 1000)
            /\ How(ret.value.image.rgba[x][3],
                   clamp(r.blue_normalized[x] * 255, 0, 255000), 1000))

\* every element of the row process_alpha_channel returns is How(byte, n, d)
\* of (a - min) / (max - min) * 255
RemapBytes(How(_, _, _)) ==
    LET a == args.alpha_normalized
    IN  /\ Len(ret.value) = Len(a)
        /\ \A i \in 1..Len(a) :
              How(ret.value[i], (a[i] - SeqMin(a)) * 255, SeqMax(a) - SeqMin(a))

\* C11 as stated: when the alpha samples are not all equal,
\* process_alpha_channel maps each sample a to
\* round((a - min) / (max - min) * 255), and each pixel's R/G/B byte written
\* by generate_thumbnail_from_curve is round(clamp(sample * 255, 0, 255)).
C11_BytesRounded ==
    /\ NonFlatRow => RemapBytes(Nearest)
    /\ ImageDrawn => PixelBytes(Nearest)

\* C11, amended: when the alpha samples are not all close to the first one,
\* process_alpha_channel maps each sample a to (a - min) / (max - min) * 255
\* with its fraction cut off, and each pixel's R/G/B byte written by
\* generate_thumbnail_from_curve is clamp(sample * 255, 0, 255) with its
\* fraction cut off.
C11_BytesTruncated ==
    /\ NotAllClose => RemapBytes(CutOff)
    /\ ImageDrawn => PixelBytes(CutOff)

\* the row 0, 0.333, 1 has come back as 0, 84, 255, 0.333 * 255 being 84.915
C11_Witness ==
    /\ NonFlatRow
    /\ args.alpha_normalized = <<0, 333, 1000>>
    /\ ret.value = <<0, 84, 255>>

ExtractDone == pc = "done" /\ op = "extract_curve_data"

\* the keys list holds exactly one keyframe, which has a value
OneKeyframe(keys) ==
    /\ keys.tag = "list"
    /\ Len(keys.elems) = 1
    /\ keys.elems[1].tag = "dict"
    /\ "value" \in DOMAIN keys.elems[1].items

\* the keys list of channel c (1..4 for R, G, B, A) of the record of the call
ArgKeys(c) == args.curve_json.items["floatCurves"].items[Channels[c]].items["keys"]

\* the resampled row of channel c
SampleRow(r, c) ==
    <<r.red_normalized, r.green_normalized, r.blue_normalized, r.alpha_normalized>>[c]

\* C12: a channel whose keys list has exactly one keyframe of value v is
\* extracted as the two-point curve [(0, v), (1, v)] whatever the keyframe's
\* time, and so resamples to v at all 128 columns: the channel's pixel byte
\* is the same in every column of the row.
C12_SingleKeyConstantRow ==
    /\ (ExtractDone /\ OneKeyframe(args.curve)) =>
          /\ ret.kind = "return"
          /\ ret.value = << <<Num(0), Num(1000)>>,
                            << args.curve.elems[1].items["value"],
                               args.curve.elems[1].items["value"] >> >>
    /\ ImageDrawn =>
          Eval(ArgSamples, LAMBDA r :
              \A c \in 1..4 :
                  OneKeyframe(ArgKeys(c)) =>
                      \A x \in 1..TextureWidth :
                          /\ SampleRow(r, c)[x] = ArgKeys(c).elems[1].items["value"].num
                          /\ ret.value.image.rgba[x][c] = ret.value.image.rgba[1][c])

\* an image has been drawn from a record whose red channel is the single
\* keyframe (0.7, 0.4): the red byte is 102 from the first column to the last
C12_Witness ==
    /\ ImageDrawn
    /\ ArgKeys(1) = List(<<Key(700, 400)>>)
    /\ ret.value.image.rgba[1][1] = 102
    /\ ret.value.image.rgba[TextureWidth][1] = 102

\* the keyframe values extract_curve_data returned come from: both values of
\* a single-keyframe list from its keyframe, the i-th value of a longer list
\* from the i-th keyframe
SourceValue(i) ==
    IF Len(args.curve.elems) = 1
    THEN args.curve.elems[1].items["value"]
    ELSE args.curve.elems[i].items["value"]

\* C13: for every non-empty keys list, a list of exactly one keyframe
\* included, every value extract_curve_data returns whose source keyframe
\* value is below 1e-6 in absolute value is exactly zero, and every other
\* value is returned unchanged.
C13_SmallValuesSnapped ==
    (ExtractDone /\ ret.kind = "return" /\ args.curve.tag = "list"
        /\ Len(args.curve.elems) > 0) =>
        \A i \in 1..Len(ret.value[2]) :
            ret.value[2][i] = IF BelowEpsilon(SourceValue(i)) THEN Num(0)
                              ELSE SourceValue(i)

\* the integral has returned a row
IntegralRow == IntegralDone /\ ret.kind = "return" /\ ret.value.tag = "array"

\* the per-column grayscale samples of the record of the call
ArgGrayscale == Eval(ArgSamples, LAMBDA r : [x \in 1..args.width |-> Grayscale(r, x)])

\* row is the running sum of the samples g, and ends in their sum
PrefixSum(row, g) ==
    /\ Len(row) = Len(g)
    /\ row[1] = g[1]
    /\ \A x \in 2..Len(row) : row[x] = row[x - 1] + g[x]
    /\ row[Len(row)] = SumRange(g, 1, Len(g))

NonDecreasing(row) == \A x \in 2..Len(row) : row[x - 1] <= row[x]

NonNegative(g) == \A x \in 1..Len(g) : g[x] >= 0

\* every keyframe value of the four channels of the record is non-negative
KeyValuesNonNegative ==
    \A c \in 1..4 : \A k \in 1..Len(ArgKeys(c).elems) :
        ArgKeys(c).elems[k].items["value"].num >= 0

\* C14 as stated: a row compute_integral_from_curve_json returns is the
\* prefix sum of the per-column grayscale samples, non-decreasing whenever
\* all grayscale samples are non-negative, its last element the sum of the
\* samples; and the grayscale samples are non-negative for any input record.
C14_IntegralOfNonNegativeSamples ==
    IntegralRow =>
        Eval(ArgGrayscale, LAMBDA g :
            /\ PrefixSum(ret.value.elems, g)
            /\ NonNegative(g) => NonDecreasing(ret.value.elems)
            /\ NonNegative(g))

\* C14, amended: a row compute_integral_from_curve_json returns is the
\* prefix sum of the per-column grayscale samples, non-decreasing whenever
\* all grayscale samples are non-negative, its last element the sum of the
\* samples; and the grayscale samples are non-negative for every record
\* whose keyframe values are all non-negative.
C14_IntegralIsPrefixSum ==
    IntegralRow =>
        Eval(ArgGrayscale, LAMBDA g :
            /\ PrefixSum(ret.value.elems, g)
            /\ NonNegative(g) => NonDecreasing(ret.value.elems)
            /\ KeyValuesNonNegative => NonNegative(g))

\* a row has been returned for a record of non-negative keyframe values: it
\* rises along the row and ends in the sum of the samples, which is not zero
C14_Witness ==
    /\ IntegralRow
    /\ KeyValuesNonNegative
    /\ ret.value.elems[1] < ret.value.elems[TextureWidth]
    /\ NonDecreasing(ret.value.elems)
    /\ ret.value.elems[TextureWidth] = SumRange(ArgGrayscale, 1, TextureWidth)

IntegralImageDone == pc = "done" /\ op = "compute_integral_from_curve_data"

\* every channel array the call was given has width samples
FullWidthArrays ==
    \A k \in DOMAIN args.curve_data.items :
        Len(args.curve_data.items[k].elems) = args.width

\* the image has height rows of width columns
HeightByWidth ==
    /\ ret.kind = "return"
    /\ Len(ret.value.elems) = args.height
    /\ \A y \in 1..args.height : Len(ret.value.elems[y]) = args.width

\* C15 as stated: compute_integral_from_curve_data returns a height-by-width
\* image in which every row is identical to every other row.
C15_RowsIdentical ==
    (IntegralImageDone /\ FullWidthArrays) =>
        /\ HeightByWidth
        /\ \A y \in 1..args.height : ret.value.elems[y] = ret.value.elems[1]

\* C15, amended: compute_integral_from_curve_data returns a height-by-width
\* image in which row y, counted from 1, is y times the first row (the
\* outer product of [1..height] with the one row's cumulative sum).
C15_RowsScaled ==
    (IntegralImageDone /\ FullWidthArrays) =>
        /\ HeightByWidth
        /\ \A y \in 1..args.height : \A x \in 1..args.width :
              ret.value.elems[y][x] = y * ret.value.elems[1][x]

\* an image of several rows whose first row is the cumulative sum 30, 60 of
\* two red bytes 90: its second row is 60, 120
C15_Witness ==
    /\ IntegralImageDone
    /\ args.height >= 2
    /\ args.curve_data = Dict("r_curve" :> Repeat(Num(90000), 2))
    /\ ret.value.elems[1] = <<30, 60>>
    /\ ret.value.elems[2] = <<60, 120>>

(***************************************************************************)
(* Properties of the export and of the assembler, checked under            *)
(* SpecAssemble                                                            *)
(***************************************************************************)
ExportDone == pc = "done" /\ op = "convert_to_UE_output_format"

\* field k of the input is in the output with the same value
CarriedOver(k) == k \in DOMAIN ret.value /\ ret.value[k] = args.input_json[k]

\* C16 as stated: convert_to_UE_output_format changes only floatCurves: every
\* other top-level field of the input record, created_at and metaCurves
\* included when present, is in the output with the same key and value.
C16_OtherFieldsPassThrough ==
    ExportDone => \A k \in DOMAIN args.input_json \ {"floatCurves"} : CarriedOver(k)

\* C16, amended: convert_to_UE_output_format turns floatCurves into a list
\* and carries over, with the same key and value, the seven adjust fields
\* and assetImportData of the input record; the output has no other
\* top-level field, so created_at and metaCurves are dropped.
C16_AdjustFieldsPassThrough ==
    ExportDone =>
        /\ \A k \in DOMAIN args.input_json \cap (AdjustFields \cup {"assetImportData"}) :
              CarriedOver(k)
        /\ DOMAIN ret.value = {"floatCurves", "assetImportData"} \cup AdjustFields
        /\ DOMAIN ret.value.floatCurves = 1..Len(ret.value.floatCurves)

\* a spec-mode record with created_at and metaCurves has been exported, its
\* adjustHue, not zero, carried over
C16_Witness ==
    /\ ExportDone
    /\ {"created_at", "metaCurves"} \subseteq DOMAIN args.input_json
    /\ args.input_json.adjustHue > 0
    /\ ret.value.adjustHue = args.input_json.adjustHue
    /\ "created_at" \notin DOMAIN ret.value

\* the input record has the four channels, each with the four fields of a
\* float curve, as every assembled record has
FourFullChannels ==
    /\ "floatCurves" \in DOMAIN args.input_json
    /\ DOMAIN args.input_json.floatCurves = {"R", "G", "B", "A"}
    /\ \A c \in {"R", "G", "B", "A"} :
          DOMAIN args.input_json.floatCurves[c]
              = {"keys", "defaultValue", "preInfinityExtrap", "postInfinityExtrap"}

\* C17: for every assembled record, convert_to_UE_output_format followed by
\* mapping list positions 0, 1, 2, 3 back to R, G, B, A reproduces the
\* original floatCurves field for field: position i of the exported list
\* holds the i-th channel of R, G, B, A.
C17_ExportRoundTrip ==
    (ExportDone /\ FourFullChannels) =>
        /\ Len(ret.value.floatCurves) = 4
        /\ [c \in {"R", "G", "B", "A"} |->
              ret.value.floatCurves[CHOOSE i \in 1..4 : Channels[i] = c]]
             = args.input_json.floatCurves
        /\ \A i \in 1..4 : \A f \in {"keys", "defaultValue", "preInfinityExtrap",
                                    "postInfinityExtrap"} :
              ret.value.floatCurves[i][f] = args.input_json.floatCurves[Channels[i]][f]

\* an assembled record whose four channels differ from one another has been
\* exported
C17_Witness ==
    /\ ExportDone
    /\ FourFullChannels
    /\ "created_at" \in DOMAIN args.input_json
    /\ \A c, d \in {"R", "G", "B", "A"} :
          c # d => args.input_json.floatCurves[c] # args.input_json.floatCurves[d]
    /\ Len(args.input_json.floatCurves.R.keys) >= 2
    /\ ret.value.floatCurves[4] = args.input_json.floatCurves.A

\* a call in random mode has returned: generate_random_color_curve, or
\* generate_color_curve_from_spec without a spec
RandomModeDone ==
    /\ pc = "done"
    /\ \/ op = "generate_random_color_curve"
       \/ op = "generate_color_curve_from_spec" /\ args.json_data.tag = "none"
    /\ ret.kind = "return"

\* the positions of the "-" of chars, and its k-th part between them
Dashes(chars) == {i \in 1..Len(chars) : chars[i] = "-"}
Dash(chars, k) ==
    CHOOSE i \in Dashes(chars) : Cardinality({j \in Dashes(chars) : j < i}) = k - 1
Part(chars, k) ==
    SubSeq(chars,
           IF k = 1 THEN 1 ELSE Dash(chars, k - 1) + 1,
           IF k = Cardinality(Dashes(chars)) + 1 THEN Len(chars) ELSE Dash(chars, k) - 1)

\* x is 0 where the branch sets the literal 0, else within the range the
\* branch draws from
Within(x, range) ==
    IF range = <<>> THEN x = 0 ELSE range[1] <= x /\ x <= range[2]

\* the curve is one generate_random_float_curve gives for the family: every
\* key has the modes and the tangent ranges of the family's branch and a
\* value within the noise of the family's shape at the key's time
SynthesizedAs(curve, type) ==
    LET b == RandomCurveBranch(type)
        noise_range == NoiseRange(Len(curve.keys))
    IN  \A k \in 1..Len(curve.keys) :
            LET key == curve.keys[k]
                shape == CASE b.value_kind = "formula" -> {ShapeValue(type, key.time)}
                           [] b.value_kind = "step" -> {0, 1000}
                           [] b.value_kind = "random" -> 0..1000
            IN  /\ KeyModes(key) = BranchModes(b)
                /\ Within(key.arriveTangent, b.arrive_tangent)
                /\ Within(key.leaveTangent, b.leave_tangent)
                /\ Within(key.arriveTangentWeight, b.arrive_tangent_weight)
                /\ Within(key.leaveTangentWeight, b.leave_tangent_weight)
                /\ \E v \in shape :
                      /\ clamp(v - noise_range, 0, 1000) <= key.value
                      /\ key.value <= clamp(v + noise_range, 0, 1000)

\* C18: in random mode curve_type_comp is the names of the shape families
\* used for R, G, B, A, in that order, joined with "-", and each channel's
\* float curve was synthesized with the family named at its position (the
\* family asked for, where the caller names one).
C18_RandomTypeCompNamesFamilies ==
    RandomModeDone =>
        LET comp == ret.value.curve_type_comp.chars
        IN  /\ Cardinality(Dashes(comp)) = 3
            /\ \A i \in 1..4 :
                  \E type \in FloatCurveTypes :
                      /\ Part(comp, i) = MemberName[type]
                      /\ SynthesizedAs(ret.value.curve_json.floatCurves[Channels[i]], type)
                      /\ (op = "generate_color_curve_from_spec"
                            /\ args.float_curve_type # "None")
                            => type = args.float_curve_type

\* a random record whose four channels were given four different families
C18_Witness ==
    /\ RandomModeDone
    /\ op = "generate_random_color_curve"
    /\ Cardinality({Part(ret.value.curve_type_comp.chars, i) : i \in 1..4}) = 4
    /\ \A i \in 1..4 :
          Len(ret.value.curve_json.floatCurves[Channels[i]].keys) >= 2

\* the shape family channel i of the spec resolves to: the member its name
\* names whatever its case, PARABOLIC for a missing key or any other name
Resolved(i) ==
    IF TypeKeyMissing(i) \/ NamesNoMember(i) THEN "PARABOLIC"
    ELSE CHOOSE m \in FloatCurveTypes :
            MemberName[m] = Upper(args.json_data.items[SpecCurveKeys[i][1]].chars)

\* the parts of chars between its "-"
Parts(chars) == {Part(chars, k) : k \in 1..(Cardinality(Dashes(chars)) + 1)}

\* C19: in spec mode curve_type_comp is built from the spec's name and
\* description when they are present, and otherwise from the shape families
\* chosen for the channels after fallback resolution; in every case a
\* channel that fell back to PARABOLIC is not described by the unrecognized
\* name.
C19_SpecTypeCompFromFamilies ==
    (SpecModeDone /\ ret.kind = "return"
        /\ \A i \in 1..4 : TypeKeyMissing(i) \/ TypeKeyIsName(i)) =>
        /\ {"name", "description"} \cap DOMAIN args.json_data.items = {}
              => ret.value.curve_type_comp
                    = Str(Join([i \in 1..4 |-> MemberName[Resolved(i)]]))
        /\ \A i \in 1..4 :
              (NamesNoMember(i) /\ args.json_data.items[SpecCurveKeys[i][1]] # EmptyStr)
                  => args.json_data.items[SpecCurveKeys[i][1]].chars
                        \notin Parts(ret.value.curve_type_comp.chars)

AssemblerDone ==
    pc = "done" /\ op \in {"generate_color_curve_from_spec", "generate_random_color_curve"}

\* C20: generate_color_curve_from_spec invokes the metadata-append hook
\* exactly once per call in spec mode, with the curve_id and the name of the
\* record it has built and then returns; in random mode, and where no
\* record is built, the hook is not invoked.
C20_HookOncePerSpecCall ==
    AssemblerDone =>
        IF SpecModeDone /\ ret.kind = "return"
        THEN metadata = << <<ret.value.curve_id, ret.value.name>> >>
        ELSE metadata = <<>>

\* the spec named "sunset" has been assembled and the hook has been told
\* its curve_id and its name, once
C20_Witness ==
    /\ SpecModeDone
    /\ ret.kind = "return"
    /\ ret.value.name = Str(<<"s", "u", "n", "s", "e", "t">>)
    /\ Len(metadata) = 1
    /\ metadata[1] = <<args.curve_id, Str(<<"s", "u", "n", "s", "e", "t">>)>>

\* a record has been assembled
Assembled == AssemblerDone /\ ret.kind = "return"

\* every one of the seven adjust scalars of the record lies in [lo, hi]
AdjustWithin(lo, hi) ==
    \A k \in AdjustFields :
        lo <= ret.value.curve_json[k] /\ ret.value.curve_json[k] <= hi

\* C21: the seven adjust scalars of an assembled record lie in [0, 0.1] in
\* random mode and in [0, randomize_adjustments] in spec mode; when the spec
\* omits randomize_adjustments all seven are exactly 0.
C21_AdjustmentsInRange ==
    Assembled =>
        IF SpecModeDone
        THEN IF "randomize_adjustments" \in DOMAIN args.json_data.items
             THEN AdjustWithin(0, args.json_data.items["randomize_adjustments"].num)
             ELSE AdjustWithin(0, 0)
        ELSE AdjustWithin(0, 100)

(***************************************************************************)
(* Properties of the plotting, checked under SpecRaster                    *)
(***************************************************************************)
PlotDone == pc = "done" /\ op = "plot_curves"

\* the interpMode of the first key of channel R, a string here
FirstInterpMode == args.curve_data.items["R"].items["keys"].elems[1].items["interpMode"]

\* the first key of the channels names a mode with a string no member of
\* InterpMode has as its value
UnrecognizedMode ==
    /\ "R" \in DOMAIN args.curve_data.items
    /\ Len(args.curve_data.items["R"].items["keys"].elems) > 0
    /\ "interpMode" \in DOMAIN args.curve_data.items["R"].items["keys"].elems[1].items
    /\ FirstInterpMode.tag = "str"
    /\ FirstInterpMode.chars \notin DOMAIN InterpMode

\* C22: for an interpMode string that is no InterpMode value, plot_curves
\* completes, drawing every channel with the plotting kind 'linear'.
C22_UnknownModePlotsLinear ==
    (PlotDone /\ UnrecognizedMode) =>
        /\ ret.kind = "return"
        /\ \A i \in 1..Len(ret.value) : ret.value[i] = "linear"

\* a spec object, an empty one included, was supplied to the assembler
SpecSupplied == op = "generate_color_curve_from_spec" /\ args.json_data.tag = "dict"

\* C23: an assembled record has one of two shapes. With a spec object
\* supplied (an empty one included) it has name, description and metaCurves
\* with an x_offset_curve and a y_offset_curve that are float curves;
\* otherwise it has no name, no description and no metaCurves. In both
\* shapes floatCurves has exactly the keys R, G, B, A.
C23_TwoRecordShapes ==
    Assembled =>
        /\ DOMAIN ret.value.curve_json.floatCurves = {"R", "G", "B", "A"}
        /\ IF SpecSupplied
           THEN /\ DOMAIN ret.value =
                     {"curve_id", "name", "description", "curve_type_comp", "curve_json"}
                /\ "metaCurves" \in DOMAIN ret.value.curve_json
                /\ "keys" \in DOMAIN ret.value.curve_json.metaCurves.x_offset_curve
                /\ "keys" \in DOMAIN ret.value.curve_json.metaCurves.y_offset_curve
           ELSE /\ DOMAIN ret.value = {"curve_id", "curve_type_comp", "curve_json"}
                /\ "metaCurves" \notin DOMAIN ret.value.curve_json

\* a record was assembled from the empty spec
C23_Witness == Assembled /\ SpecSupplied /\ DOMAIN args.json_data.items = {}

(***************************************************************************)
(* Key count of generate_float_curve, checked under SpecSynth              *)
(***************************************************************************)
\* default_key_count * resolution_scale truncated towards zero, then held
\* within [2, 100]
TruncatedCount(default_key_count, resolution_scale) ==
    LET product == default_key_count * resolution_scale
        truncated == IF product >= 0 THEN product \div 1000 ELSE -((-product) \div 1000)
    IN  IF truncated < 2 THEN 2 ELSE IF truncated > 100 THEN 100 ELSE truncated

\* C24: for every shape family and every resolution_scale (0, negative and
\* above 1 included) generate_float_curve returns between 2 and 100 keys;
\* for a family other than RANDOM the count is the truncation of
\* default_key_count * resolution_scale clamped to [2, 100], and for RANDOM
\* the count is the one of the same call with resolution_scale 1.
C24_KeyCountClamped ==
    (pc = "done" /\ op = "generate_float_curve") =>
        /\ ret.kind = "return"
        /\ 2 <= Len(ret.value.keys) /\ Len(ret.value.keys) <= 100
        /\ (args.float_curve_type \in FloatCurveTypes \ {"RANDOM"}) =>
                Len(ret.value.keys) =
                    TruncatedCount(default_key_counts[args.float_curve_type],
                                   args.resolution_scale)
        /\ args.float_curve_type = "RANDOM" =>
                Len(ret.value.keys) =
                    Len(generate_float_curve("RANDOM", 1000, args.noise_scale,
                                             args.seed).value.keys)

\* a curve synthesized with a negative resolution_scale has two keys
C24_Witness ==
    /\ Returned("generate_float_curve")
    /\ args.float_curve_type = "RAINBOW"
    /\ args.resolution_scale < 0
    /\ Len(ret.value.keys) = 2

(***************************************************************************)
(* Properties of the alpha remap, checked under SpecRaster                 *)
(***************************************************************************)
\* C25: whenever the all-close check of process_alpha_channel fails, the
\* minimum and the maximum of the samples differ, so the branch for
\* min_alpha == max_alpha, which fills the row with 255, is not taken: the
\* row returned is not all 255 and the divisor max_alpha - min_alpha of the
\* remap is not zero.
C25_EqualExtremesUnreachable ==
    NotAllClose =>
        LET min_alpha == SeqMin(args.alpha_normalized)
            max_alpha == SeqMax(args.alpha_normalized)
        IN  /\ min_alpha # max_alpha
            /\ \E i \in 1..Len(ret.value) : ret.value[i] # 255

\* the check failed on a row whose first two samples are equal
C25_Witness ==
    /\ NotAllClose
    /\ Len(args.alpha_normalized) = 3
    /\ args.alpha_normalized[1] = args.alpha_normalized[2]

\* the row out is the samples a stretched to the whole range of a byte: 0
\* where a has its minimum, 255 where it has its maximum, within [0, 255]
\* and in the order of a
Stretched(a, out) ==
    /\ Len(out) = Len(a)
    /\ \A i \in 1..Len(a) :
          /\ a[i] = SeqMin(a) => out[i] = 0
          /\ a[i] = SeqMax(a) => out[i] = 255
          /\ 0 <= out[i] /\ out[i] <= 255
          /\ \A j \in 1..Len(a) : a[i] <= a[j] => out[i] <= out[j]

\* the grid drawn for a record whose alpha samples satisfy Differ has the
\* alpha samples stretched, with a column of alpha 0 and one of alpha 255
StretchedGrid(Differ(_)) ==
    ImageDrawn =>
        Eval(ArgSamples, LAMBDA r :
            Differ(r.alpha_normalized) =>
                /\ Stretched(r.alpha_normalized,
                             [x \in 1..TextureWidth |-> ret.value.image.rgba[x][4]])
                /\ \E x \in 1..TextureWidth : ret.value.image.rgba[x][4] = 0
                /\ \E x \in 1..TextureWidth : ret.value.image.rgba[x][4] = 255)

\* some sample of the row a is not the first one
NotAllEqual(a) == \E i \in 1..Len(a) : a[i] # a[1]

\* C27 as stated: whenever the alpha samples are not all equal, the row
\* process_alpha_channel returns has 0 at every position of the minimum
\* sample and 255 at every position of the maximum one, lies in [0, 255] and
\* keeps the order of the samples; so the grid drawn for a record with
\* non-flat alpha has a column of alpha 0 and a column of alpha 255.
C27_UnequalAlphaStretched ==
    /\ NonFlatRow => Stretched(args.alpha_normalized, ret.value)
    /\ StretchedGrid(NotAllEqual)

\* C27, amended: whenever the alpha samples are not all close to the first
\* one (np.allclose fails), the row process_alpha_channel returns has 0 at
\* every position of the minimum sample and 255 at every position of the
\* maximum one, lies in [0, 255] and keeps the order of the samples; so the
\* grid drawn for a record with such alpha has a column of alpha 0 and a
\* column of alpha 255.
C27_AlphaStretchedToFullRange ==
    /\ NotAllClose => Stretched(args.alpha_normalized, ret.value)
    /\ StretchedGrid(LAMBDA a : ~AllClose(a))

\* an image was drawn for a record whose alpha starts below zero and rises:
\* its first column has alpha 0 and its last alpha 255
C27_Witness ==
    /\ ImageDrawn
    /\ args.curve_json.items["floatCurves"].items["A"] = Dip
    /\ ret.value.image.rgba[1][4] = 0
    /\ ret.value.image.rgba[TextureWidth][4] = 255

(***************************************************************************)
(* Properties of the checkered background, checked under SpecRaster        *)
(***************************************************************************)
BackgroundDone == pc = "done" /\ op = "create_checkered_background"

\* C26: after create_checkered_background(width, height, 8) every pixel
\* (x, y) of the image is opaque light gray when x div 8 + y div 8 is even
\* and opaque white when it is odd: none keeps the transparent fill or has
\* the colour of a neighbouring square.
C26_EveryPixelOfItsSquare ==
    (BackgroundDone /\ args.square_size = 8) =>
        /\ DOMAIN ret.value = (0..(args.width - 1)) \X (0..(args.height - 1))
        /\ \A p \in DOMAIN ret.value :
              ret.value[p] = IF ((p[1] \div 8) + (p[2] \div 8)) % 2 = 0
                             THEN <<200, 200, 200, 255>>
                             ELSE <<255, 255, 255, 255>>

\* an image of more than two squares each way: the pixel (8, 8), which four
\* rectangles cover, is light gray and the pixel (8, 7) white
C26_Witness ==
    /\ BackgroundDone
    /\ args.width > 16 /\ args.height > 16
    /\ ret.value[<<8, 8>>] = <<200, 200, 200, 255>>
    /\ ret.value[<<8, 7>>] = <<255, 255, 255, 255>>

(***************************************************************************)
(* Properties of the collaborators, checked under SpecApp                  *)
(***************************************************************************)
\* C28: update_field never raises and hands its queries to the database in
\* the order SELECT, UPDATE, INSERT; it returns status 'success' only if all
\* three succeeded, and whenever it returns status 'error' the stored field
\* has the value it had before the call.
C28_ErrorLeavesFieldUnchanged ==
    [][UpdateField =>
        /\ ret'.kind = "return"
        /\ \E n \in 0..3 : database'.queries = SubSeq(<<"SELECT", "UPDATE", "INSERT">>, 1, n)
        /\ ret'.value.status = "success" =>
              /\ database'.queries = <<"SELECT", "UPDATE", "INSERT">>
              /\ args.faults = {}
              /\ database'.rows[args.uuid] = args.new_value
              /\ Len(database'.column_action_log) = 1
        /\ ret'.value.status = "error" => database'.rows = database.rows]_vars

FetchDone == pc = "done" /\ op = "fetch_json"

\* C29: fetch_json returns status 'success' exactly when its data is the
\* parsed JSON body; for a connection error, an HTTP error status and a body
\* that is no valid JSON the status is 'error' and data is None.
C29_SuccessIffParsedBody ==
    FetchDone =>
        LET parsed == IF args.reply.kind = "response" /\ args.reply.status_code < 400
                      THEN ResponseJson(args.reply.body)
                      ELSE Raise("RequestException")
        IN  /\ ret.kind = "return"
            /\ ret.value.status \in {"success", "error"}
            /\ ret.value.status = "success" <=> parsed.kind = "return"
            /\ IF parsed.kind = "return" THEN ret.value.data = parsed.value
               ELSE ret.value.data = PyNone

\* C30: after every run of read_page the page of the session is at least 1
\* and at most max(1, total_pages), so the offset of the records fetched is
\* not past the last record.
C30_PageWithinTotal ==
    (pc = "done" /\ op = "read_page") =>
        /\ 1 <= session_state.page
        /\ session_state.page <= Max2(1, ret.value.total_pages)
        /\ ret.value.offset = 0 \/ ret.value.offset < ret.value.total_records

====
